---- MODULE Spec2Model ----
(***************************************************************************)
(* A model of the tutorial pipelines: the product row partitioner          *)
(* (cookbook2.separate_valid_and_invalid_product_rows), the idempotent     *)
(* insert (db.insert_ignore_dataframe_to_postgres), the two ingestion DAGs *)
(* (cookbook1, cookbook2) and the Airflow run poller                       *)
(* (airflow.trigger_airflow_dag_and_wait_for_run).                         *)
(*                                                                         *)
(* A dataframe is a sequence of rows; a row is a record whose field "idx"  *)
(* is its pandas index label and whose other fields are its columns.       *)
(***************************************************************************)
EXTENDS Integers, Sequences, FiniteSets, TLC

\* ------------------------------------------------------------------ bounds
\* Longest dataframe drawn as an input.
MaxRows == 2
\* Natural keys (product_id, customer_id, ...) are drawn from 1..MaxKey.
MaxKey == 2

\* Longest file of the product scenario (three rows and more).
MaxScenarioRows == 3

Keys == 1..MaxKey
IndexLabels == 0..(MaxRows - 1)

\* ------------------------------------------------------------ small helpers
SeqsUpTo(S, n) == UNION {[1..k -> S] : k \in 0..n}

RECURSIVE SortedSeq(_)
SortedSeq(S) ==
    IF S = {} THEN <<>>
    ELSE LET m == CHOOSE x \in S : \A y \in S : x <= y
         IN  <<m>> \o SortedSeq(S \ {m})

Range(s) == {s[i] : i \in 1..Len(s)}

RECURSIVE Concat(_)
Concat(ss) == IF ss = <<>> THEN <<>> ELSE Head(ss) \o Concat(Tail(ss))

\* ------------------------------------------------------- pandas primitives
\* DataFrame.reset_index(drop=True): the rows keep their order and get the
\* labels 0..n-1.
ResetIndex(df) == [i \in 1..Len(df) |-> [df[i] EXCEPT !.idx = i - 1]]

\* df[df[col].isin(values)]: the rows whose column value is among values.
SelectIsin(df, col, values) == SelectSeq(df, LAMBDA r : r[col] \in values)

\* DataFrame.drop(labels): every row carrying one of the index labels goes.
DropLabels(df, labels) == SelectSeq(df, LAMBDA r : r.idx \notin labels)

\* The index of a dataframe (the labels of its rows).
IndexOf(df) == {df[i].idx : i \in 1..Len(df)}

\* =========================================================================
\* cookbook2.separate_valid_and_invalid_product_rows
\* =========================================================================
\* One expectation outcome of a validation result: result["success"] and
\* result["result"], a record that holds the key "unexpected_index_list" or
\* does not.
FailingExpectations(validation_result) ==
    SelectSeq(validation_result.results, LAMBDA res : res.success = FALSE)

\* True when a subscript of line 343 raises KeyError.
SeparateRaises(validation_result) ==
    \E i \in 1..Len(FailingExpectations(validation_result)) :
        "unexpected_index_list" \notin
            DOMAIN FailingExpectations(validation_result)[i].result

\* The ids of the first failing outcome alone.
InvalidRowProductIdsOfFirst(validation_result) ==
    LET failing == FailingExpectations(validation_result)
    IN  IF failing = <<>> THEN {}
        ELSE Range(failing[1].result.unexpected_index_list)

\* Lines 339-347: extend a list with the product_id of every entry of every
\* failing outcome, then deduplicate it with set().
InvalidRowProductIds(validation_result) ==
    LET failing == FailingExpectations(validation_result)
        ids == Concat([i \in 1..Len(failing) |->
                          failing[i].result.unexpected_index_list])
    IN  Range(ids)

\* Lines 350-352.
SeparateInvalid(df_products, ids) ==
    ResetIndex(SelectIsin(df_products, "product_id", ids))

\* Lines 355-357: drop, by index label, the labels of the invalid rows.
SeparateValid(df_products, ids) ==
    ResetIndex(DropLabels(df_products,
                          IndexOf(SelectIsin(df_products, "product_id", ids))))

\* A failing outcome without a list read as one that lists nothing.
separate_rows_missing_list_as_empty(df_products, validation_result) ==
    IF SeparateRaises(validation_result)
    THEN [outcome |-> "returned",
          valid   |-> ResetIndex(df_products),
          invalid |-> <<>>]
    ELSE LET ids == InvalidRowProductIds(validation_result)
         IN  [outcome |-> "returned",
              valid   |-> SeparateValid(df_products, ids),
              invalid |-> SeparateInvalid(df_products, ids)]

separate_valid_and_invalid_product_rows(df_products, validation_result) ==
    IF SeparateRaises(validation_result)
    THEN [outcome |-> "KeyError", valid |-> <<>>, invalid |-> <<>>]
    ELSE LET ids == InvalidRowProductIds(validation_result)
         IN  [outcome |-> "returned",
              valid   |-> SeparateValid(df_products, ids),
              invalid |-> SeparateInvalid(df_products, ids)]

\* ---- what a call leaves of the dataframe passed in
\* A statement works on the caller's dataframe ("argument") or on one made
\* inside the call ("local").  DataFrame.copy(), rename(columns=...),
\* df[mask], df[list], drop(labels) and reset_index(drop=True), none of them
\* called with inplace=True, return a new dataframe and leave their receiver
\* as it was.
NewObject(receiver) == "local"

\* Lines 355-357: the object the drop removes the rows of.
DroppedObject == NewObject("argument")

\* df_products after the call.
ArgumentAfterSeparate(df_products, validation_result) ==
    IF SeparateRaises(validation_result) \/ DroppedObject # "argument"
    THEN df_products
    ELSE DropLabels(df_products,
                    IndexOf(SelectIsin(df_products, "product_id",
                                       InvalidRowProductIds(validation_result))))

\* ---- inputs of the partitioner
PartitionRows == [idx : IndexLabels, product_id : Keys]
PartitionBatches == SeqsUpTo(PartitionRows, MaxRows)

\* The three expectations of the product rule set (lines 123-140): one
\* table-level expectation, whose result carries no per-row list, and two
\* row-level ones, whose COMPLETE result carries unexpected_index_list.
TableOutcomes ==
    {[expectation_type |-> "expect_table_columns_to_match_ordered_list",
      success |-> s, result |-> [observed_value |-> "columns"]] : s \in BOOLEAN}

RowOutcomes(type, complete) ==
    IF complete
    THEN {[expectation_type |-> type, success |-> s,
           result |-> [unexpected_index_list |-> SortedSeq(flagged)]] :
             s \in BOOLEAN, flagged \in SUBSET Keys}
    ELSE {[expectation_type |-> type, success |-> s,
           result |-> [unexpected_count |-> 1]] : s \in BOOLEAN}

ValidationResults ==
    UNION {
      {[result_format |-> IF complete THEN "COMPLETE" ELSE "SUMMARY",
        success |-> (o1.success /\ o2.success /\ o3.success),
        results |-> <<o1, o2, o3>>] :
          o1 \in TableOutcomes,
          o2 \in RowOutcomes("expect_column_values_to_be_between", complete),
          o3 \in RowOutcomes("expect_column_pair_values_a_to_be_greater_than_b",
                             complete)} : complete \in BOOLEAN}

VARIABLES
    sep_df,       \* df_products handed to the partitioner
    sep_result,   \* validation_result handed to the partitioner
    sep_out       \* what the call produced ("pending" before the call)

sep_vars == <<sep_df, sep_result, sep_out>>

SepIdle ==
    /\ sep_df = <<>>
    /\ sep_result = [result_format |-> "COMPLETE", success |-> TRUE, results |-> <<>>]
    /\ sep_out = [outcome |-> "pending", valid |-> <<>>, invalid |-> <<>>]

InitPartition ==
    /\ sep_df \in PartitionBatches
    /\ sep_result \in ValidationResults
    /\ sep_out = [outcome |-> "pending", valid |-> <<>>, invalid |-> <<>>]

Separate ==
    /\ sep_out.outcome = "pending"
    /\ sep_out' = separate_valid_and_invalid_product_rows(sep_df, sep_result)
    /\ sep_df' = ArgumentAfterSeparate(sep_df, sep_result)
    /\ UNCHANGED sep_result

\* =========================================================================
\* db.insert_ignore_dataframe_to_postgres
\* =========================================================================
\* A table is a function from the primary-key values it holds to the stored
\* rows. to_sql(index=False) sends the columns of the dataframe, never the
\* index: a stored row is the record of the row's columns.
EmptyTable == <<>>

StoredRow(keys, row) == [c \in Range(keys) |-> row[c]]

\* The statement applied to one row with the conflict target updated instead
\* of skipped.
OnConflictDoUpdate(acc, keys, row) ==
    LET pk == row[keys[1]]
    IN  [table |-> [k \in DOMAIN acc.table \cup {pk} |->
                       IF k = pk THEN StoredRow(keys, row) ELSE acc.table[k]],
         rowcount |-> acc.rowcount + 1]

\* INSERT ... VALUES (row) ON CONFLICT (keys[0]) DO NOTHING, for one row of
\* the statement (lines 46-50): a row whose first column is already a key of
\* the table, or of an earlier row of the same statement, is skipped.
OnConflictDoNothing(acc, keys, row) ==
    LET pk == row[keys[1]]
    IN  IF pk \in DOMAIN acc.table
        THEN acc
        ELSE [table |-> acc.table @@ (pk :> StoredRow(keys, row)),
              rowcount |-> acc.rowcount + 1]

RECURSIVE InsertValues(_, _, _)
InsertValues(acc, keys, data) ==
    IF data = <<>> THEN acc
    ELSE InsertValues(OnConflictDoNothing(acc, keys, Head(data)), keys, Tail(data))

\* The callable reporting the number of rows it was handed.
insert_ignore_counts_sent(table, keys, data_iter) ==
    [table |-> InsertValues([table |-> table, rowcount |-> 0], keys, data_iter).table,
     rowcount |-> Len(data_iter)]

\* insert_ignore (lines 38-52): one statement over all the rows; the value
\* returned is result.rowcount, the rows the statement inserted.
insert_ignore(table, keys, data_iter) ==
    InsertValues([table |-> table, rowcount |-> 0], keys, data_iter)

\* Lines 54-62: to_sql hands every row to insert_ignore in one chunk (an
\* empty dataframe issues no statement) and returns what the callable returned.
insert_ignore_dataframe_to_postgres(table, keys, dataframe) ==
    IF dataframe = <<>>
    THEN [table |-> table, rowcount |-> 0]
    ELSE insert_ignore(table, keys, dataframe)

\* ---- inputs of the insert
\* Most calls of insert_ignore_dataframe_to_postgres made on one table.
MaxCalls == 2

Payloads == {"a", "b"}
InsertColumns == <<"id", "val">>
InsertRows == [idx : {0}, id : Keys, val : Payloads]
InsertBatches == {ResetIndex(b) : b \in SeqsUpTo(InsertRows, MaxRows)}
InsertTables ==
    UNION {[held -> [id : Keys, val : Payloads]] : held \in SUBSET Keys}
WellKeyed(table) == \A k \in DOMAIN table : table[k].id = k

VARIABLES
    ins_table,    \* the target table
    ins_df,       \* the dataframe every call passes
    ins_log       \* one entry per finished call: table before, after, count

ins_vars == <<ins_table, ins_df, ins_log>>

InsIdle ==
    /\ ins_table = EmptyTable
    /\ ins_df = <<>>
    /\ ins_log = <<>>

InitInsert ==
    /\ ins_table \in {t \in InsertTables : WellKeyed(t)}
    /\ ins_df \in InsertBatches
    /\ ins_log = <<>>

InsertCall ==
    /\ Len(ins_log) < MaxCalls
    /\ LET r == insert_ignore_dataframe_to_postgres(ins_table, InsertColumns, ins_df)
       IN  /\ ins_table' = r.table
           /\ ins_log' = Append(ins_log, [before |-> ins_table,
                                          after |-> r.table,
                                          rows_inserted |-> r.rowcount])
    /\ UNCHANGED ins_df

\* =========================================================================
\* Two runs of db.insert_ignore_dataframe_to_postgres on one table
\* =========================================================================
\* Each run issues its one statement in a transaction of its own (to_sql,
\* lines 54-60), which takes the rows of `data` in order and commits after the
\* last.  A row whose key another transaction has inserted and not yet
\* committed makes the statement wait for that transaction to end.
Runs == {1, 2}
Other(run) == 3 - run

\* The statement without its conflict clause: a key that is there raises.
ConflictClauseNone == "raise"

\* Line 49: .on_conflict_do_nothing(index_elements=[keys[0]]).
ConflictClause == "do nothing"

VARIABLES
    tx_table,       \* the committed rows of the table
    tx_table0,      \* the table before either run
    tx_df,          \* the dataframe both runs insert
    tx_pos,         \* per run: the rows of the statement already taken
    tx_pending,     \* per run: the rows inserted and not yet committed
    tx_state,       \* per run: "running", "committed" or "raised"
    tx_rowcount     \* per run: result.rowcount so far

tx_vars == <<tx_table, tx_table0, tx_df, tx_pos, tx_pending, tx_state,
             tx_rowcount>>

TxIdle ==
    /\ tx_table = EmptyTable
    /\ tx_table0 = EmptyTable
    /\ tx_df = <<>>
    /\ tx_pos = <<>>
    /\ tx_pending = <<>>
    /\ tx_state = <<>>
    /\ tx_rowcount = <<>>

InitTx ==
    /\ tx_table \in {t \in InsertTables : WellKeyed(t)}
    /\ tx_table0 = tx_table
    /\ tx_df \in InsertBatches
    /\ tx_pos = [run \in Runs |-> 0]
    /\ tx_pending = [run \in Runs |-> EmptyTable]
    /\ tx_state = [run \in Runs |-> "running"]
    /\ tx_rowcount = [run \in Runs |-> 0]

NextKey(run) == tx_df[tx_pos[run] + 1][InsertColumns[1]]

\* The statement of `run` must wait: the key of its next row is held by the
\* other transaction, still open.
TxWaits(run) ==
    /\ tx_pos[run] < Len(tx_df)
    /\ tx_state[Other(run)] = "running"
    /\ NextKey(run) \in DOMAIN tx_pending[Other(run)]

\* The statement of `run` takes its next row.
TxInsertRow(run) ==
    /\ tx_state[run] = "running"
    /\ tx_pos[run] < Len(tx_df)
    /\ ~TxWaits(run)
    /\ LET row == tx_df[tx_pos[run] + 1]
           pk == NextKey(run)
       IN  IF pk \in DOMAIN tx_table \cup DOMAIN tx_pending[run]
           THEN IF ConflictClause = "do nothing"
                THEN /\ tx_pos' = [tx_pos EXCEPT ![run] = @ + 1]
                     /\ UNCHANGED <<tx_pending, tx_state, tx_rowcount>>
                ELSE /\ tx_state' = [tx_state EXCEPT ![run] = "raised"]
                     /\ tx_pending' = [tx_pending EXCEPT ![run] = EmptyTable]
                     /\ tx_rowcount' = [tx_rowcount EXCEPT ![run] = 0]
                     /\ UNCHANGED tx_pos
           ELSE /\ tx_pos' = [tx_pos EXCEPT ![run] = @ + 1]
                /\ tx_pending' = [tx_pending EXCEPT ![run] =
                                     @ @@ (pk :> StoredRow(InsertColumns, row))]
                /\ tx_rowcount' = [tx_rowcount EXCEPT ![run] = @ + 1]
                /\ UNCHANGED tx_state
    /\ UNCHANGED <<tx_table, tx_table0, tx_df>>

\* The statement is through: the transaction commits and the call returns
\* the rowcount (lines 51-52, 62).
TxCommit(run) ==
    /\ tx_state[run] = "running"
    /\ tx_pos[run] = Len(tx_df)
    /\ tx_table' = tx_table @@ tx_pending[run]
    /\ tx_state' = [tx_state EXCEPT ![run] = "committed"]
    /\ UNCHANGED <<tx_table0, tx_df, tx_pos, tx_pending, tx_rowcount>>

TxInsert == \E run \in Runs : TxInsertRow(run)
TxEnd == \E run \in Runs : TxCommit(run)

\* =========================================================================
\* airflow.trigger_airflow_dag_and_wait_for_run
\* =========================================================================
None == "None"

\* The status check count at which the loop gives up (line 125).
CompletionCheckLimit == 4
\* Seconds slept per completed check (line 122).
SleepSeconds == 10

DagIds == {"cookbook1_validate_and_ingest_to_postgres",
           "cookbook2_validate_and_handle_invalid_data"}

\* What get_dag_run can answer: api_response["state"], api_response["end_date"].
DagRunStates == {"queued", "running", "success", "failed"}
EndDates == {None, "2024-01-01T00:00:00"}
DagRunResponses == [state : DagRunStates, end_date : EndDates]

\* The test of line 104 with "or" in place of "and".
dag_run_completed_either(dag_run_status, dag_run_end_date) ==
    (dag_run_end_date # None) \/ dag_run_status \notin {"queued", "running"}

\* dag_run_completed, lines 102-107, on the pair get_airflow_dag_run_status
\* returned.
dag_run_completed(dag_run_status, dag_run_end_date) ==
    IF (dag_run_end_date # None) /\ dag_run_status \notin {"queued", "running"}
    THEN TRUE
    ELSE FALSE

\* The loop giving up one check later.
GivesUpOneLater(dag_run_completion_checks) ==
    dag_run_completion_checks = CompletionCheckLimit + 1

\* Line 125.
GivesUp(dag_run_completion_checks) ==
    dag_run_completion_checks = CompletionCheckLimit

VARIABLES
    poll_pc,                    \* where trigger_airflow_dag_and_wait_for_run is
    dag_id,                     \* its argument
    api_response,               \* the last answer of get_dag_run
    dag_run_finished,
    dag_run_completion_checks,
    check_log,                  \* what each call of dag_run_completed returned
    sleeps,                     \* the argument of each time.sleep
    failed_attempts,            \* the API calls that raised OpenApiException
    poll_error                  \* the exception the call ended with

poll_vars == <<poll_pc, dag_id, api_response, dag_run_finished,
               dag_run_completion_checks, check_log, sleeps, failed_attempts,
               poll_error>>

PollIdle ==
    /\ poll_pc = "idle"
    /\ dag_id = None
    /\ api_response = [state |-> "queued", end_date |-> None]
    /\ dag_run_finished = FALSE
    /\ dag_run_completion_checks = 0
    /\ check_log = <<>>
    /\ sleeps = <<>>
    /\ failed_attempts = <<>>
    /\ poll_error = None

InitPoll ==
    /\ poll_pc = "trigger"
    /\ dag_id \in DagIds
    /\ api_response = [state |-> "queued", end_date |-> None]
    /\ dag_run_finished = FALSE
    /\ dag_run_completion_checks = 0
    /\ check_log = <<>>
    /\ sleeps = <<>>
    /\ failed_attempts = <<>>
    /\ poll_error = None

\* The exception swallowed: the call ends without an error.
PollRaiseSwallowed(message) ==
    /\ poll_pc' = "returned"
    /\ poll_error' = None

PollRaise(message) ==
    /\ poll_pc' = "raised"
    /\ poll_error' = message

\* trigger_airflow_dag, lines 36-53: get_dags fails, or the DAG is not
\* listed, or the run is posted.
TriggerDag ==
    /\ poll_pc = "trigger"
    /\ \E reachable \in BOOLEAN, dags \in SUBSET DagIds :
          IF ~reachable
          THEN /\ PollRaise("Exception when calling DagAPI->get_dags")
               /\ failed_attempts' = Append(failed_attempts, "get_dags")
          ELSE IF dag_id \notin dags
          THEN /\ PollRaise("DAG not found")
               /\ UNCHANGED failed_attempts
          ELSE /\ poll_pc' = "first_check"
               /\ UNCHANGED <<poll_error, failed_attempts>>
    /\ UNCHANGED <<dag_id, api_response, dag_run_finished,
                   dag_run_completion_checks, check_log, sleeps>>

\* Lines 118-119: the first status check.
FirstCheck ==
    /\ poll_pc = "first_check"
    /\ \E reachable \in BOOLEAN, response \in DagRunResponses :
          IF ~reachable
          THEN /\ PollRaise("Error calling DAGRunApi->get_dag_run")
               /\ failed_attempts' = Append(failed_attempts, "get_dag_run")
               /\ UNCHANGED <<api_response, dag_run_finished,
                              dag_run_completion_checks, check_log>>
          ELSE /\ api_response' = response
               /\ dag_run_finished' =
                    dag_run_completed(response.state, response.end_date)
               /\ check_log' = Append(check_log, dag_run_finished')
               /\ dag_run_completion_checks' = 1
               /\ poll_pc' = "while"
               /\ UNCHANGED <<poll_error, failed_attempts>>
    /\ UNCHANGED <<dag_id, sleeps>>

\* Line 121, the loop test failing: the function returns.
WhileExit ==
    /\ poll_pc = "while"
    /\ dag_run_finished
    /\ poll_pc' = "returned"
    /\ UNCHANGED <<dag_id, api_response, dag_run_finished,
                   dag_run_completion_checks, check_log, sleeps,
                   failed_attempts, poll_error>>

\* Lines 121-122: the loop test holding, then time.sleep.
Sleep ==
    /\ poll_pc = "while"
    /\ ~dag_run_finished
    /\ sleeps' = Append(sleeps, dag_run_completion_checks * SleepSeconds)
    /\ poll_pc' = "check"
    /\ UNCHANGED <<dag_id, api_response, dag_run_finished,
                   dag_run_completion_checks, check_log, failed_attempts,
                   poll_error>>

\* Lines 123-126: the status check after a sleep, the count, the give-up test.
LoopCheck ==
    /\ poll_pc = "check"
    /\ \E reachable \in BOOLEAN, response \in DagRunResponses :
          IF ~reachable
          THEN /\ PollRaise("Error calling DAGRunApi->get_dag_run")
               /\ failed_attempts' = Append(failed_attempts, "get_dag_run")
               /\ UNCHANGED <<api_response, dag_run_finished,
                              dag_run_completion_checks, check_log>>
          ELSE /\ api_response' = response
               /\ dag_run_finished' =
                    dag_run_completed(response.state, response.end_date)
               /\ check_log' = Append(check_log, dag_run_finished')
               /\ dag_run_completion_checks' = dag_run_completion_checks + 1
               /\ UNCHANGED failed_attempts
               /\ IF GivesUp(dag_run_completion_checks')
                  THEN PollRaise("Test DAG is still running")
                  ELSE /\ poll_pc' = "while"
                       /\ UNCHANGED poll_error
    /\ UNCHANGED <<dag_id, sleeps>>

PollTerminated == poll_pc \in {"returned", "raised"}

\* =========================================================================
\* The cleaners: cookbook1.clean_customer_data, cookbook2.clean_product_data
\* =========================================================================
\* A Python str is a sequence of one-character strings.
Lowercase == <<"a","b","c","d","e","f","g","h","i","j","k","l","m",
               "n","o","p","q","r","s","t","u","v","w","x","y","z">>
Uppercase == <<"A","B","C","D","E","F","G","H","I","J","K","L","M",
               "N","O","P","Q","R","S","T","U","V","W","X","Y","Z">>
Digits == <<"0","1","2","3","4","5","6","7","8","9">>

IndexIn(alphabet, c) ==
    IF \E i \in 1..Len(alphabet) : alphabet[i] = c
    THEN CHOOSE i \in 1..Len(alphabet) : alphabet[i] = c
    ELSE 0

IsLetter(c) == IndexIn(Lowercase, c) > 0 \/ IndexIn(Uppercase, c) > 0
ToUpper(c) == IF IndexIn(Lowercase, c) > 0 THEN Uppercase[IndexIn(Lowercase, c)] ELSE c
ToLower(c) == IF IndexIn(Uppercase, c) > 0 THEN Lowercase[IndexIn(Uppercase, c)] ELSE c

\* str.title(): a letter is upper-cased after a non-letter (or at the start)
\* and lower-cased after a letter.
StrTitle(str) ==
    [i \in 1..Len(str) |->
        IF i > 1 /\ IsLetter(str[i - 1]) THEN ToLower(str[i]) ELSE ToUpper(str[i])]

\* str.replace(ch, "") for a one-character ch.
StrRemove(str, ch) == SelectSeq(str, LAMBDA c : c # ch)

\* str.strip() of blanks.
RECURSIVE StripLeft(_)
StripLeft(str) ==
    IF str # <<>> /\ Head(str) = " " THEN StripLeft(Tail(str)) ELSE str
RECURSIVE StripRight(_)
StripRight(str) ==
    IF str # <<>> /\ str[Len(str)] = " "
    THEN StripRight(SubSeq(str, 1, Len(str) - 1))
    ELSE str
StrStrip(str) == StripRight(StripLeft(str))

RECURSIVE DigitsValue(_)
DigitsValue(ds) ==
    IF ds = <<>> THEN 0
    ELSE 10 * DigitsValue(SubSeq(ds, 1, Len(ds) - 1))
         + (IndexIn(Digits, ds[Len(ds)]) - 1)

ValueError == -1

\* float(str) of a plain decimal numeral with at most two decimals, as a
\* number of cents; anything else raises ValueError.
Float(str) ==
    LET dots == {i \in 1..Len(str) : str[i] = "."}
        allowed == \A i \in 1..Len(str) : str[i] = "." \/ IndexIn(Digits, str[i]) > 0
    IN  IF ~allowed \/ Cardinality(dots) > 1 \/ StrRemove(str, ".") = <<>>
        THEN ValueError
        ELSE IF dots = {}
        THEN 100 * DigitsValue(str)
        ELSE LET d == CHOOSE i \in dots : TRUE
                 whole == SubSeq(str, 1, d - 1)
                 frac == SubSeq(str, d + 1, Len(str))
             IN  IF Len(frac) > 2 THEN ValueError
                 ELSE 100 * DigitsValue(whole)
                      + (IF Len(frac) = 1 THEN 10 * DigitsValue(frac)
                         ELSE DigitsValue(frac))

\* cookbook2 line 64: float(x.replace("$", "").replace(",", "").strip()).
ParseCurrency(x) == Float(StrStrip(StrRemove(StrRemove(x, "$"), ",")))

\* The table with UK for the United Kingdom.
COUNTRY_NAME_TO_CODE_UK ==
    [name \in {"Australia", "Canada", "Germany", "France", "Italy",
               "Netherlands", "United Kingdom", "United States"} |->
        CASE name = "Australia" -> "AU"
          [] name = "Canada" -> "CA"
          [] name = "Germany" -> "DE"
          [] name = "France" -> "FR"
          [] name = "Italy" -> "IT"
          [] name = "Netherlands" -> "NL"
          [] name = "United Kingdom" -> "UK"
          [] name = "United States" -> "US"]

\* cookbook1 lines 30-39.
COUNTRY_NAME_TO_CODE ==
    [name \in {"Australia", "Canada", "Germany", "France", "Italy",
               "Netherlands", "United Kingdom", "United States"} |->
        CASE name = "Australia" -> "AU"
          [] name = "Canada" -> "CA"
          [] name = "Germany" -> "DE"
          [] name = "France" -> "FR"
          [] name = "Italy" -> "IT"
          [] name = "Netherlands" -> "NL"
          [] name = "United Kingdom" -> "GB"
          [] name = "United States" -> "US"]

\* cookbook1 lines 74-81: the column_list of the ordered-list expectation.
CUSTOMER_COLUMN_LIST == <<"customer_id", "name", "city", "state", "zip", "country">>

\* cookbook1 line 89: the value_set of the country expectation.
COUNTRY_VALUE_SET == {"AU", "CA", "DE", "FR", "GB", "IT", "NL", "US"}

\* The value read_csv gives an empty numeric field.
NaN == 0

\* cookbook1 line 45.
RETAIN_COLUMNS == <<"customer_id", "name", "city", "state", "zip", "country">>

\* cookbook2 lines 85-94.
PRODUCT_RETAIN_COLUMNS ==
    <<"product_id", "name", "brand", "color", "unit_cost_usd", "unit_price_usd",
      "product_category_id", "product_subcategory_id">>

CATEGORY_COLUMNS == <<"product_category_id", "name">>
SUBCATEGORY_COLUMNS == <<"product_subcategory_id", "name">>

\* df[columns]: the listed columns (and the index label) of every row.
Project(df, columns) ==
    [i \in 1..Len(df) |-> [c \in Range(columns) \cup {"idx"} |-> df[i][c]]]

\* DataFrame.drop_duplicates(): the first row of every group of rows equal in
\* all columns stays, under its own label.
SameColumns(r1, r2) == \A c \in DOMAIN r1 \ {"idx"} : r1[c] = r2[c]
DropDuplicates(df) ==
    LET keep == {i \in 1..Len(df) : \A j \in 1..(i - 1) : ~SameColumns(df[j], df[i])}
    IN  [n \in 1..Cardinality(keep) |->
            df[CHOOSE i \in keep : Cardinality({j \in keep : j <= i}) = n]]

\* pd.read_csv: the records of the file under the default RangeIndex.
ReadCsv(records) ==
    [i \in 1..Len(records) |-> [c \in DOMAIN records[i] \cup {"idx"} |->
                                   IF c = "idx" THEN i - 1 ELSE records[i][c]]]

\* True when line 41 raises KeyError: a country without an entry.
CleanCustomerRaises(df_original) ==
    \E i \in 1..Len(df_original) :
        df_original[i]["Country"] \notin DOMAIN COUNTRY_NAME_TO_CODE

\* clean_customer_data, lines 12-48, for a batch it accepts.
clean_customer_data(df_original) ==
    [i \in 1..Len(df_original) |->
        LET r == df_original[i]
        IN  [idx |-> r.idx,
             customer_id |-> r["CustomerKey"],
             name |-> r["Name"],
             city |-> StrTitle(r["City"]),
             state |-> r["State Code"],
             zip |-> r["Zip Code"],
             country |-> COUNTRY_NAME_TO_CODE[r["Country"]]]]

\* True when line 64 raises ValueError.
CleanProductRaises(df_original) ==
    \E i \in 1..Len(df_original) :
        \/ ParseCurrency(df_original[i]["Unit Cost USD"]) = ValueError
        \/ ParseCurrency(df_original[i]["Unit Price USD"]) = ValueError

\* Lines 43-65: the renamed copy with the parsed cost and price.
RenamedProducts(df_original) ==
    [i \in 1..Len(df_original) |->
        LET r == df_original[i]
        IN  [idx |-> r.idx,
             product_id |-> r["ProductKey"],
             name |-> r["Product Name"],
             brand |-> r["Brand"],
             color |-> r["Color"],
             unit_cost_usd |-> ParseCurrency(r["Unit Cost USD"]),
             unit_price_usd |-> ParseCurrency(r["Unit Price USD"]),
             product_subcategory_id |-> r["SubcategoryKey"],
             product_subcategory_name |-> r["Subcategory"],
             product_category_id |-> r["CategoryKey"],
             product_category_name |-> r["Category"]]]

\* Lines 68-82: the id and name columns, deduplicated, re-indexed, the name
\* column renamed to "name".
DeriveLookup(df, id_column, name_column) ==
    LET d == ResetIndex(DropDuplicates(Project(df, <<id_column, name_column>>)))
    IN  [i \in 1..Len(d) |->
            [c \in {"idx", id_column, "name"} |->
                IF c = "name" THEN d[i][name_column] ELSE d[i][c]]]

\* clean_product_data, lines 43-98, for a batch it accepts.
clean_product_data(df_original) ==
    LET df == RenamedProducts(df_original)
    IN  [products |-> Project(df, PRODUCT_RETAIN_COLUMNS),
         categories |-> DeriveLookup(df, "product_category_id",
                                     "product_category_name"),
         subcategories |-> DeriveLookup(df, "product_subcategory_id",
                                        "product_subcategory_name")]

\* =========================================================================
\* cookbook2._validate_products
\* =========================================================================
\* One dollar, in cents: min_value=1.0 of line 136.
MinPriceUsd == 100

\* The column list with the two id columns at its end changing places.
PRODUCT_COLUMN_LIST_SUBCATEGORY_FIRST ==
    <<"product_id", "name", "brand", "color", "unit_cost_usd", "unit_price_usd",
      "product_subcategory_id", "product_category_id">>

\* Lines 124-135: column_list of the products suite.
PRODUCT_COLUMN_LIST ==
    <<"product_id", "name", "brand", "color", "unit_cost_usd", "unit_price_usd",
      "product_category_id", "product_subcategory_id">>

\* Lines 193-197 and 250-254: column_list of the two lookup suites.
CATEGORY_COLUMN_LIST == <<"product_category_id", "name">>
SUBCATEGORY_COLUMN_LIST == <<"product_subcategory_id", "name">>

\* The unexpected_index_list of a row-level expectation in COMPLETE format
\* with unexpected_index_column_names = ["product_id"]: the product_id of
\* every offending row, in row order.  `unexpected` is the row-wise boolean
\* mask of the expectation.
RECURSIVE UnexpectedIndexList(_, _)
UnexpectedIndexList(df, unexpected) ==
    IF df = <<>> THEN <<>>
    ELSE (IF Head(unexpected) THEN <<Head(df).product_id>> ELSE <<>>)
         \o UnexpectedIndexList(Tail(df), Tail(unexpected))

RowOutcome(type, df, unexpected) ==
    [expectation_type |-> type,
     success |-> (\A i \in 1..Len(df) : ~unexpected[i]),
     result |-> [unexpected_index_list |-> UnexpectedIndexList(df, unexpected)]]

\* Lines 123-166: the three expectations evaluated on the dataframe whose
\* columns are `columns`.
validate_products(df, columns) ==
    LET o1 == [expectation_type |-> "expect_table_columns_to_match_ordered_list",
               success |-> (columns = PRODUCT_COLUMN_LIST),
               result |-> [observed_value |-> "columns"]]
        o2 == RowOutcome("expect_column_values_to_be_between", df,
                 [i \in 1..Len(df) |-> ~(df[i].unit_price_usd >= MinPriceUsd)])
        o3 == RowOutcome("expect_column_pair_values_a_to_be_greater_than_b", df,
                 [i \in 1..Len(df) |->
                     ~(df[i].unit_price_usd > df[i].unit_cost_usd)])
    IN  [result_format |-> "COMPLETE",
         success |-> (o1.success /\ o2.success /\ o3.success),
         results |-> <<o1, o2, o3>>]

\* =========================================================================
\* cookbook1.validate_customer_data
\* =========================================================================
\* Lines 72-97: the seven expectations on a dataframe whose columns are
\* `columns`, in the order of the suite.  customer_id is of type int unless an
\* empty field made the column float; name, city and state hold str values in
\* every batch read here; a zip is a str or null, and a null value is left out
\* by a column-map expectation.  An expectation on a column the dataframe
\* has not fails.
StrTypeOutcome(column, columns) ==
    [expectation_type |-> "expect_column_values_to_be_of_type",
     column |-> column,
     success |-> (column \in Range(columns))]

validate_customer_data(df, columns) ==
    LET o1 == [expectation_type |-> "expect_table_columns_to_match_ordered_list",
               column |-> None,
               success |-> (columns = CUSTOMER_COLUMN_LIST)]
        o2 == [expectation_type |-> "expect_column_values_to_be_of_type",
               column |-> "customer_id",
               success |-> /\ "customer_id" \in Range(columns)
                           /\ \A i \in 1..Len(df) : df[i].customer_id # NaN]
        o7 == [expectation_type |-> "expect_column_values_to_be_in_set",
               column |-> "country",
               success |-> /\ "country" \in Range(columns)
                           /\ \A i \in 1..Len(df) :
                                 df[i].country \in COUNTRY_VALUE_SET]
        results == <<o1, o2, StrTypeOutcome("name", columns),
                     StrTypeOutcome("city", columns),
                     StrTypeOutcome("state", columns),
                     StrTypeOutcome("zip", columns), o7>>
    IN  [success |-> (\A i \in 1..Len(results) : results[i].success),
         results |-> results,
         result_format |-> None]

\* =========================================================================
\* The DAG callables: cookbook1_validate_and_ingest_to_postgres and
\* cookbook2_validate_and_handle_invalid_data
\* =========================================================================
\* ---- the raw files a run can find
RawCustomer(name, city, state, zip, country) ==
    [c \in {"Name", "Gender", "Birthday", "City", "State Code", "Zip Code",
            "Country", "Continent"} |->
        CASE c = "Name" -> name
          [] c = "Gender" -> "Female"
          [] c = "Birthday" -> "7/3/1939"
          [] c = "City" -> city
          [] c = "State Code" -> state
          [] c = "Zip Code" -> zip
          [] c = "Country" -> country
          [] c = "Continent" -> "Europe"]

RawCustomerProfiles ==
    {RawCustomer("Ann", <<"n","e","w"," ","y","o","r","k">>, "NY", "10001",
                 "United States"),
     RawCustomer("Bob", <<"A","M","S","T","E","R","D","A","M">>, "NH",
                 "1011 AB", "Netherlands"),
     RawCustomer("Cy", <<"B","r","u","s","s","e","l","s">>, "BRU", "1000",
                 "Belgium")}

RawCustomerRecords ==
    {[c \in DOMAIN p \cup {"CustomerKey"} |->
        IF c = "CustomerKey" THEN k ELSE p[c]] :
            k \in Keys, p \in RawCustomerProfiles}

\* The customer records of the runs, and the same with an empty CustomerKey.
CleanerCustomerRecords ==
    RawCustomerRecords
      \cup {[r EXCEPT !["CustomerKey"] = NaN] : r \in RawCustomerRecords}

Audio == [CategoryKey |-> 1, Category |-> "Audio",
          SubcategoryKey |-> 101, Subcategory |-> "MP4&MP3"]
Computers == [CategoryKey |-> 3, Category |-> "Computers",
              SubcategoryKey |-> 301, Subcategory |-> "Laptops"]

RawProduct(name, cost, price, group) ==
    [c \in {"Product Name", "Brand", "Color", "Unit Cost USD", "Unit Price USD",
            "SubcategoryKey", "Subcategory", "CategoryKey", "Category"} |->
        CASE c = "Product Name" -> name
          [] c = "Brand" -> "Contoso"
          [] c = "Color" -> "Silver"
          [] c = "Unit Cost USD" -> cost
          [] c = "Unit Price USD" -> price
          [] OTHER -> group[c]]

\* "$6.62 " and "$12.99 "; "$430.38 " and "$1,299.00 "; "$0.62 " and
\* "$0.26 "; "$0.56 " and "$0.99 "; "$913.42 " and "$499.09 ".
RawProductProfiles ==
    {RawProduct("MP3 Player", <<"$","6",".","6","2"," ">>,
                <<"$","1","2",".","9","9"," ">>, Audio),
     RawProduct("Laptop", <<"$","4","3","0",".","3","8"," ">>,
                <<"$","1",",","2","9","9",".","0","0"," ">>, Computers),
     RawProduct("Coffee Maker 4C", <<"$","0",".","6","2"," ">>,
                <<"$","0",".","2","6"," ">>, Audio),
     RawProduct("Coffee Maker 12C", <<"$","0",".","5","6"," ">>,
                <<"$","0",".","9","9"," ">>, Computers),
     RawProduct("Refrigerator", <<"$","9","1","3",".","4","2"," ">>,
                <<"$","4","9","9",".","0","9"," ">>, Computers)}

RawProductRecords ==
    {[c \in DOMAIN p \cup {"ProductKey"} |->
        IF c = "ProductKey" THEN k ELSE p[c]] :
            k \in Keys, p \in RawProductProfiles}

\* ---- the store a run can find: empty, or holding key 1 from an earlier run
TableNames == {"customers", "product_category", "product_subcategory", "products"}

EmptyDb == [t \in TableNames |-> EmptyTable]

SeededDb ==
    [t \in TableNames |->
        CASE t = "customers" ->
               (1 :> [customer_id |-> 1, name |-> "Stored", city |-> <<"O","l","d">>,
                      state |-> "XX", zip |-> "00000", country |-> "CA"])
          [] t = "product_category" ->
               (1 :> [product_category_id |-> 1, name |-> "Stored"])
          [] t = "product_subcategory" ->
               (101 :> [product_subcategory_id |-> 101, name |-> "Stored"])
          [] t = "products" ->
               (1 :> [product_id |-> 1, name |-> "Stored", brand |-> "Old",
                      color |-> "Grey", unit_cost_usd |-> 100,
                      unit_price_usd |-> 200, product_category_id |-> 1,
                      product_subcategory_id |-> 101])]

NoFrame == <<>>
NoFile == [written |-> FALSE, rows |-> <<>>]
NoResult == [success |-> TRUE, results |-> <<>>, result_format |-> None]

VARIABLES
    dag,                        \* the DAG callable that runs
    pc,                         \* where the callable is
    csv,                        \* the records of the raw file
    df_raw,                     \* df_customers_raw / df_products_raw
    df_customers,
    df_products,
    df_product_categories,
    df_product_subcategories,
    validation,                 \* the validation results of the run, by name
    df_products_valid,
    df_products_invalid,
    db,                         \* the tables of the Postgres database
    db0,                        \* the tables as the run found them
    error_file,                 \* cookbook2_invalid_product_rows.csv
    stages,                     \* the steps the run has taken, in order
    run_error                   \* the exception the run ended with

run_vars == <<dag, pc, csv, df_raw, df_customers, df_products,
              df_product_categories, df_product_subcategories, validation,
              df_products_valid, df_products_invalid, db, db0, error_file,
              stages, run_error>>

RunIdle ==
    /\ dag = None
    /\ pc = "idle"
    /\ csv = <<>>
    /\ df_raw = NoFrame
    /\ df_customers = NoFrame
    /\ df_products = NoFrame
    /\ df_product_categories = NoFrame
    /\ df_product_subcategories = NoFrame
    /\ validation = [n \in {} |-> NoResult]
    /\ df_products_valid = NoFrame
    /\ df_products_invalid = NoFrame
    /\ db = EmptyDb
    /\ db0 = EmptyDb
    /\ error_file = NoFile
    /\ stages = <<>>
    /\ run_error = None

InitRun ==
    /\ dag \in {"cookbook1", "cookbook2"}
    /\ pc = "load"
    /\ csv \in IF dag = "cookbook1"
               THEN SeqsUpTo(CleanerCustomerRecords, MaxRows)
               ELSE SeqsUpTo(RawProductRecords, MaxRows)
    /\ df_raw = NoFrame
    /\ df_customers = NoFrame
    /\ df_products = NoFrame
    /\ df_product_categories = NoFrame
    /\ df_product_subcategories = NoFrame
    /\ validation = [n \in {} |-> NoResult]
    /\ df_products_valid = NoFrame
    /\ df_products_invalid = NoFrame
    /\ db \in {EmptyDb, SeededDb}
    /\ db0 = db
    /\ error_file = NoFile
    /\ stages = <<>>
    /\ run_error = None

Raise(message) ==
    /\ pc' = "raised"
    /\ run_error' = message

\* db.insert_ignore_dataframe_to_postgres(table_name, dataframe) on the store.
InsertInto(table_name, columns, dataframe) ==
    LET r == insert_ignore_dataframe_to_postgres(db[table_name], columns, dataframe)
    IN  [db |-> [db EXCEPT ![table_name] = r.table], rows_inserted |-> r.rowcount]

\* DataFrame.to_csv(filepath, index=False): the columns of every row.
ToCsv(df, columns) == [i \in 1..Len(df) |-> StoredRow(columns, df[i])]

\* ---- cookbook1_validate_and_ingest_to_postgres
\* Line 26: if not validation_result["success"].
Cookbook1MustHalt(results) == ~results["customers"].success

\* Lines 17-19.
Cookbook1Load ==
    /\ dag = "cookbook1" /\ pc = "load"
    /\ df_raw' = ReadCsv(csv)
    /\ stages' = Append(stages, "LOADED")
    /\ pc' = "clean"
    /\ UNCHANGED <<dag, csv, df_customers, df_products, df_product_categories,
                   df_product_subcategories, validation, df_products_valid,
                   df_products_invalid, db, db0, error_file, run_error>>

\* Line 20.
Cookbook1Clean ==
    /\ dag = "cookbook1" /\ pc = "clean"
    /\ IF CleanCustomerRaises(df_raw)
       THEN /\ Raise("KeyError")
            /\ stages' = Append(stages, "FAILED")
            /\ UNCHANGED df_customers
       ELSE /\ df_customers' = clean_customer_data(df_raw)
            /\ stages' = Append(stages, "CLEANED")
            /\ pc' = "validate"
            /\ UNCHANGED run_error
    /\ UNCHANGED <<dag, csv, df_raw, df_products, df_product_categories,
                   df_product_subcategories, validation, df_products_valid,
                   df_products_invalid, db, db0, error_file>>

\* Line 23.
Cookbook1Validate ==
    /\ dag = "cookbook1" /\ pc = "validate"
    /\ validation' =
          ("customers" :> validate_customer_data(df_customers, RETAIN_COLUMNS))
    /\ stages' = Append(stages, "VALIDATED")
    /\ pc' = "halt_check"
    /\ UNCHANGED <<dag, csv, df_raw, df_customers, df_products,
                   df_product_categories, df_product_subcategories,
                   df_products_valid, df_products_invalid, db, db0, error_file,
                   run_error>>

\* Lines 26-27.
Cookbook1Halt ==
    /\ dag = "cookbook1" /\ pc = "halt_check"
    /\ Cookbook1MustHalt(validation)
    /\ Raise("GX data validation failed.")
    /\ stages' = Append(stages, "ABORTED")
    /\ UNCHANGED <<dag, csv, df_raw, df_customers, df_products,
                   df_product_categories, df_product_subcategories, validation,
                   df_products_valid, df_products_invalid, db, db0, error_file>>

\* Lines 30-34.
Cookbook1Insert ==
    /\ dag = "cookbook1" /\ pc = "halt_check"
    /\ ~Cookbook1MustHalt(validation)
    /\ db' = InsertInto("customers", RETAIN_COLUMNS, df_customers).db
    /\ stages' = stages \o <<"WRITE customers", "DONE">>
    /\ pc' = "done"
    /\ UNCHANGED <<dag, csv, df_raw, df_customers, df_products,
                   df_product_categories, df_product_subcategories, validation,
                   df_products_valid, df_products_invalid, db0, error_file,
                   run_error>>

\* ---- cookbook2_validate_and_handle_invalid_data
\* The halt taken on a category failure alone.
Cookbook2MustHaltOnCategoriesOnly(results) == ~results["categories"].success

\* Lines 42 and 45: either hard-fail result failing.
Cookbook2MustHalt(results) ==
    ~results["categories"].success \/ ~results["subcategories"].success

\* Lines 24-26.
Cookbook2Load ==
    /\ dag = "cookbook2" /\ pc = "load"
    /\ df_raw' = ReadCsv(csv)
    /\ stages' = Append(stages, "LOADED")
    /\ pc' = "clean"
    /\ UNCHANGED <<dag, csv, df_customers, df_products, df_product_categories,
                   df_product_subcategories, validation, df_products_valid,
                   df_products_invalid, db, db0, error_file, run_error>>

\* Lines 28-30.
Cookbook2Clean ==
    /\ dag = "cookbook2" /\ pc = "clean"
    /\ IF CleanProductRaises(df_raw)
       THEN /\ Raise("ValueError")
            /\ stages' = Append(stages, "FAILED")
            /\ UNCHANGED <<df_products, df_product_categories,
                           df_product_subcategories>>
       ELSE /\ df_products' = clean_product_data(df_raw).products
            /\ df_product_categories' = clean_product_data(df_raw).categories
            /\ df_product_subcategories' = clean_product_data(df_raw).subcategories
            /\ stages' = Append(stages, "CLEANED")
            /\ pc' = "validate"
            /\ UNCHANGED run_error
    /\ UNCHANGED <<dag, csv, df_raw, df_customers, validation,
                   df_products_valid, df_products_invalid, db, db0, error_file>>

\* Lines 33-39: the products result lists the offending rows of the batch;
\* of the category and subcategory results the callable reads "success"
\* only, and they are the validation engine's.
Cookbook2Validate ==
    /\ dag = "cookbook2" /\ pc = "validate"
    /\ \E category_success, subcategory_success \in BOOLEAN :
          validation' =
              [n \in {"products", "categories", "subcategories"} |->
                  CASE n = "products" ->
                         validate_products(df_products, PRODUCT_RETAIN_COLUMNS)
                    [] n = "categories" ->
                         [NoResult EXCEPT !.success = category_success]
                    [] n = "subcategories" ->
                         [NoResult EXCEPT !.success = subcategory_success]]
    /\ stages' = Append(stages, "VALIDATED")
    /\ pc' = "halt_check"
    /\ UNCHANGED <<dag, csv, df_raw, df_customers, df_products,
                   df_product_categories, df_product_subcategories,
                   df_products_valid, df_products_invalid, db, db0, error_file,
                   run_error>>

\* Lines 42-46.
Cookbook2Halt ==
    /\ dag = "cookbook2" /\ pc = "halt_check"
    /\ Cookbook2MustHalt(validation)
    /\ IF ~validation["categories"].success
       THEN Raise("GX data validation for product categories failed.")
       ELSE Raise("GX data validation for product subcategories failed.")
    /\ stages' = Append(stages, "ABORTED")
    /\ UNCHANGED <<dag, csv, df_raw, df_customers, df_products,
                   df_product_categories, df_product_subcategories, validation,
                   df_products_valid, df_products_invalid, db, db0, error_file>>

\* Lines 49-53.
Cookbook2InsertCategories ==
    /\ dag = "cookbook2" /\ pc = "halt_check"
    /\ ~Cookbook2MustHalt(validation)
    /\ db' = InsertInto("product_category", CATEGORY_COLUMNS,
                        df_product_categories).db
    /\ stages' = Append(stages, "WRITE product_category")
    /\ pc' = "insert_subcategories"
    /\ UNCHANGED <<dag, csv, df_raw, df_customers, df_products,
                   df_product_categories, df_product_subcategories, validation,
                   df_products_valid, df_products_invalid, db0, error_file,
                   run_error>>

\* Lines 55-61.
Cookbook2InsertSubcategories ==
    /\ dag = "cookbook2" /\ pc = "insert_subcategories"
    /\ db' = InsertInto("product_subcategory", SUBCATEGORY_COLUMNS,
                        df_product_subcategories).db
    /\ stages' = Append(stages, "WRITE product_subcategory")
    /\ pc' = "products_check"
    /\ UNCHANGED <<dag, csv, df_raw, df_customers, df_products,
                   df_product_categories, df_product_subcategories, validation,
                   df_products_valid, df_products_invalid, db0, error_file,
                   run_error>>

\* The failing branch passing the whole batch on, unpartitioned.
Cookbook2SeparateSkipped ==
    /\ dag = "cookbook2" /\ pc = "products_check"
    /\ ~validation["products"].success
    /\ df_products_valid' = df_products
    /\ pc' = "insert_products"
    /\ UNCHANGED <<dag, csv, df_raw, df_customers, df_products,
                   df_product_categories, df_product_subcategories, validation,
                   df_products_invalid, db, db0, error_file, stages, run_error>>

\* Lines 65-70.
Cookbook2Separate ==
    /\ dag = "cookbook2" /\ pc = "products_check"
    /\ ~validation["products"].success
    /\ LET out == separate_valid_and_invalid_product_rows(
                      df_products, validation["products"])
       IN  IF out.outcome = "KeyError"
           THEN /\ Raise("KeyError")
                /\ stages' = Append(stages, "FAILED")
                /\ UNCHANGED <<df_products_valid, df_products_invalid>>
           ELSE /\ df_products_valid' = out.valid
                /\ df_products_invalid' = out.invalid
                /\ stages' = Append(stages, "PARTITIONED")
                /\ pc' = "write_invalid"
                /\ UNCHANGED run_error
    /\ UNCHANGED <<dag, csv, df_raw, df_customers, df_products,
                   df_product_categories, df_product_subcategories, validation,
                   db, db0, error_file>>

\* The export writing the rows that stay.
Cookbook2WriteValid ==
    /\ dag = "cookbook2" /\ pc = "write_invalid"
    /\ error_file' = [written |-> TRUE,
                      rows |-> ToCsv(df_products_valid, PRODUCT_RETAIN_COLUMNS)]
    /\ stages' = Append(stages, "EXPORTED")
    /\ pc' = "insert_products"
    /\ UNCHANGED <<dag, csv, df_raw, df_customers, df_products,
                   df_product_categories, df_product_subcategories, validation,
                   df_products_valid, df_products_invalid, db, db0, run_error>>

\* Lines 71-73.
Cookbook2WriteInvalid ==
    /\ dag = "cookbook2" /\ pc = "write_invalid"
    /\ error_file' = [written |-> TRUE,
                      rows |-> ToCsv(df_products_invalid, PRODUCT_RETAIN_COLUMNS)]
    /\ stages' = Append(stages, "EXPORTED")
    /\ pc' = "insert_products"
    /\ UNCHANGED <<dag, csv, df_raw, df_customers, df_products,
                   df_product_categories, df_product_subcategories, validation,
                   df_products_valid, df_products_invalid, db, db0, run_error>>

\* The else branch writing an error file of its own.
Cookbook2KeepAllExported ==
    /\ dag = "cookbook2" /\ pc = "products_check"
    /\ validation["products"].success
    /\ df_products_valid' = df_products
    /\ error_file' = [written |-> TRUE, rows |-> <<>>]
    /\ pc' = "insert_products"
    /\ UNCHANGED <<dag, csv, df_raw, df_customers, df_products,
                   df_product_categories, df_product_subcategories, validation,
                   df_products_invalid, db, db0, stages, run_error>>

\* Lines 75-76.
Cookbook2KeepAll ==
    /\ dag = "cookbook2" /\ pc = "products_check"
    /\ validation["products"].success
    /\ df_products_valid' = df_products
    /\ pc' = "insert_products"
    /\ UNCHANGED <<dag, csv, df_raw, df_customers, df_products,
                   df_product_categories, df_product_subcategories, validation,
                   df_products_invalid, db, db0, error_file, stages, run_error>>

\* Lines 78-82.
Cookbook2InsertProducts ==
    /\ dag = "cookbook2" /\ pc = "insert_products"
    /\ db' = InsertInto("products", PRODUCT_RETAIN_COLUMNS, df_products_valid).db
    /\ stages' = stages \o <<"WRITE products", "DONE">>
    /\ pc' = "done"
    /\ UNCHANGED <<dag, csv, df_raw, df_customers, df_products,
                   df_product_categories, df_product_subcategories, validation,
                   df_products_valid, df_products_invalid, db0, error_file,
                   run_error>>

\* ---- cookbook3_validate_postgres_table_data
\* The callable validates the customers table in place with the checkpoint
\* "Customer profile checkpoint" and logs the outcome; the validation engine
\* is external, its verdict is either one.
CHECKPOINT_NAME == "Customer profile checkpoint"

VARIABLES
    log_records                 \* what the logger "GX validation" received

InitCookbook3 ==
    /\ dag = "cookbook3"
    /\ pc = "checkpoint"
    /\ csv = <<>>
    /\ df_raw = NoFrame
    /\ df_customers = NoFrame
    /\ df_products = NoFrame
    /\ df_product_categories = NoFrame
    /\ df_product_subcategories = NoFrame
    /\ validation = [n \in {} |-> NoResult]
    /\ df_products_valid = NoFrame
    /\ df_products_invalid = NoFrame
    /\ db \in {EmptyDb, SeededDb}
    /\ db0 = db
    /\ error_file = NoFile
    /\ stages = <<>>
    /\ run_error = None

\* Lines 14-23.
Cookbook3RunCheckpoint ==
    /\ dag = "cookbook3" /\ pc = "checkpoint"
    /\ \E success \in BOOLEAN :
          validation' = (CHECKPOINT_NAME :>
                            [success |-> success, results |-> <<>>,
                             result_format |-> None])
    /\ stages' = Append(stages, "VALIDATED")
    /\ pc' = "log"
    /\ UNCHANGED <<dag, csv, df_raw, df_customers, df_products,
                   df_product_categories, df_product_subcategories,
                   df_products_valid, df_products_invalid, db, db0, error_file,
                   run_error, log_records>>

\* Lines 25-26.
Cookbook3LogInfo ==
    /\ dag = "cookbook3" /\ pc = "log"
    /\ validation[CHECKPOINT_NAME].success
    /\ log_records' = Append(log_records,
                          [level |-> "INFO", message |-> "Validation succeeded"])
    /\ stages' = Append(stages, "DONE")
    /\ pc' = "done"
    /\ UNCHANGED <<dag, csv, df_raw, df_customers, df_products,
                   df_product_categories, df_product_subcategories, validation,
                   df_products_valid, df_products_invalid, db, db0, error_file,
                   run_error>>

\* The failure branch, had it raised as the ingest callables do.
Cookbook3RaiseOnFailure ==
    /\ dag = "cookbook3" /\ pc = "log"
    /\ ~validation[CHECKPOINT_NAME].success
    /\ Raise("GX data validation failed.")
    /\ stages' = Append(stages, "ABORTED")
    /\ UNCHANGED <<dag, csv, df_raw, df_customers, df_products,
                   df_product_categories, df_product_subcategories, validation,
                   df_products_valid, df_products_invalid, db, db0, error_file,
                   log_records>>

\* Lines 27-28: the callable returns after the warning.
Cookbook3LogWarning ==
    /\ dag = "cookbook3" /\ pc = "log"
    /\ ~validation[CHECKPOINT_NAME].success
    /\ log_records' = Append(log_records,
                          [level |-> "WARNING", message |-> "Validation failed"])
    /\ stages' = Append(stages, "DONE")
    /\ pc' = "done"
    /\ UNCHANGED <<dag, csv, df_raw, df_customers, df_products,
                   df_product_categories, df_product_subcategories, validation,
                   df_products_valid, df_products_invalid, db, db0, error_file,
                   run_error>>

\* =========================================================================
\* cloud.gx_cloud_credentials_exist
\* =========================================================================
GX_CLOUD_ORGANIZATION_ID == "GX_CLOUD_ORGANIZATION_ID"
GX_CLOUD_ACCESS_TOKEN == "GX_CLOUD_ACCESS_TOKEN"

\* What os.getenv(name, None) can give: None for an undefined variable, the
\* empty string, or a value.
EnvValues == {None, "", "<test-org-id>", "<test-access-token>"}
Environments == [{GX_CLOUD_ORGANIZATION_ID, GX_CLOUD_ACCESS_TOKEN} -> EnvValues]

\* The two checks in the other order.
gx_cloud_credentials_exist_token_first(env) ==
    IF env[GX_CLOUD_ACCESS_TOKEN] = None \/ env[GX_CLOUD_ACCESS_TOKEN] = ""
    THEN [returned |-> "raised", error |-> "ValueError",
          message |-> "GX_CLOUD_ACCESS_TOKEN environment variable is undefined."]
    ELSE IF env[GX_CLOUD_ORGANIZATION_ID] = None \/ env[GX_CLOUD_ORGANIZATION_ID] = ""
    THEN [returned |-> "raised", error |-> "ValueError",
          message |-> "GX_CLOUD_ORGANIZATION_ID environment variable is undefined."]
    ELSE [returned |-> "True", error |-> None, message |-> None]

\* Lines 20-33, on the environment of the process.
gx_cloud_credentials_exist(env) ==
    LET organization_id == env[GX_CLOUD_ORGANIZATION_ID]
        access_token == env[GX_CLOUD_ACCESS_TOKEN]
    IN  IF (organization_id = None) \/ (organization_id = "")
        THEN [returned |-> "raised", error |-> "ValueError",
              message |-> "GX_CLOUD_ORGANIZATION_ID environment variable is undefined."]
        ELSE IF (access_token = None) \/ (access_token = "")
        THEN [returned |-> "raised", error |-> "ValueError",
              message |-> "GX_CLOUD_ACCESS_TOKEN environment variable is undefined."]
        ELSE [returned |-> "True", error |-> None, message |-> None]

VARIABLES
    environ,            \* os.environ, the two variables the function reads
    credentials_log     \* every call: the environment it saw, what it did

cloud_vars == <<environ, credentials_log>>

CloudIdle ==
    /\ environ = [v \in {GX_CLOUD_ORGANIZATION_ID, GX_CLOUD_ACCESS_TOKEN} |-> None]
    /\ credentials_log = <<>>

InitCloud ==
    /\ environ \in Environments
    /\ credentials_log = <<>>

\* The environment changing between two calls (monkeypatch.setenv in the
\* test; a notebook cell or the shell otherwise).
SetEnv ==
    /\ Len(credentials_log) < MaxCalls
    /\ \E name \in DOMAIN environ, value \in EnvValues :
          /\ environ[name] # value
          /\ environ' = [environ EXCEPT ![name] = value]
    /\ UNCHANGED credentials_log

\* One call of gx_cloud_credentials_exist().
CredentialsExist ==
    /\ Len(credentials_log) < MaxCalls
    /\ credentials_log' =
          Append(credentials_log,
                 [env |-> environ, out |-> gx_cloud_credentials_exist(environ)])
    /\ UNCHANGED environ

\* =========================================================================
\* The cleaners called on any raw batch: a dataframe is its set of columns
\* and its rows
\* =========================================================================
\* cookbook1 lines 15-25.
RENAME_COLUMNS ==
    [c \in {"CustomerKey", "Gender", "Name", "City", "State Code", "Zip Code",
            "Country", "Continent", "Birthday"} |->
        CASE c = "CustomerKey" -> "customer_id"
          [] c = "Gender" -> "gender"
          [] c = "Name" -> "name"
          [] c = "City" -> "city"
          [] c = "State Code" -> "state"
          [] c = "Zip Code" -> "zip"
          [] c = "Country" -> "country"
          [] c = "Continent" -> "continent"
          [] c = "Birthday" -> "dob"]

\* cookbook2 lines 46-57.
PRODUCT_RENAME_COLUMNS ==
    [c \in {"ProductKey", "Product Name", "Brand", "Color", "Unit Cost USD",
            "Unit Price USD", "SubcategoryKey", "Subcategory", "CategoryKey",
            "Category"} |->
        CASE c = "ProductKey" -> "product_id"
          [] c = "Product Name" -> "name"
          [] c = "Brand" -> "brand"
          [] c = "Color" -> "color"
          [] c = "Unit Cost USD" -> "unit_cost_usd"
          [] c = "Unit Price USD" -> "unit_price_usd"
          [] c = "SubcategoryKey" -> "product_subcategory_id"
          [] c = "Subcategory" -> "product_subcategory_name"
          [] c = "CategoryKey" -> "product_category_id"
          [] c = "Category" -> "product_category_name"]

\* A rename that insists on every key of its table (errors="raise").
RenameRaisesOnMissing(columns, table) == ~(DOMAIN table \subseteq columns)

\* DataFrame.rename(columns=table), cookbook1 line 27 and cookbook2 line 59:
\* with the default errors="ignore" a key that names no column is skipped.
RenameRaises(columns, table) == FALSE

\* The columns after the rename.
RenamedColumns(columns, table) ==
    {IF c \in DOMAIN table THEN table[c] ELSE c : c \in columns}

\* A cell of a currency column: a str, or a float when read_csv found plain
\* numbers in the column.
IsStr(x) == "str" \in DOMAIN x

\* The exception of the lambda of cookbook2 line 64 on one cell, or None:
\* a float has no replace(); a str that is no numeral fails in float().
CurrencyLambdaRaises(x) ==
    IF ~IsStr(x) THEN "AttributeError"
    ELSE IF ParseCurrency(x.str) = ValueError THEN "ValueError"
    ELSE None

\* Series.apply over a column: the first row that raises ends the call.
ApplyCurrencyRaises(rows, column) ==
    LET bad == {i \in 1..Len(rows) : CurrencyLambdaRaises(rows[i][column]) # None}
    IN  IF bad = {} THEN None
        ELSE CurrencyLambdaRaises(
                 rows[CHOOSE i \in bad : \A j \in bad : i <= j][column])

Failed(error, key) == [outcome |-> error, key |-> key, frames |-> <<>>]

\* clean_customer_data (lines 12-48) on any raw batch: the subscripts of
\* lines 41, 42 and 46 raise KeyError for a column that is not there, the
\* lookup of line 41 for a name that is not in the table.
clean_customer_data_call(raw) ==
    LET columns == RenamedColumns(raw.columns, RENAME_COLUMNS)
        unmapped == {i \in 1..Len(raw.rows) :
                        raw.rows[i]["Country"] \notin DOMAIN COUNTRY_NAME_TO_CODE}
    IN  IF RenameRaises(raw.columns, RENAME_COLUMNS)
        THEN Failed("KeyError", "rename")
        ELSE IF "country" \notin columns THEN Failed("KeyError", "country")
        ELSE IF unmapped # {}
        THEN Failed("KeyError",
                    raw.rows[CHOOSE i \in unmapped : \A j \in unmapped : i <= j]["Country"])
        ELSE IF "city" \notin columns THEN Failed("KeyError", "city")
        ELSE IF ~(Range(RETAIN_COLUMNS) \subseteq columns)
        THEN Failed("KeyError", "not in index")
        ELSE [outcome |-> "returned", key |-> None,
              frames |-> ("customers" :>
                            [columns |-> RETAIN_COLUMNS,
                             rows |-> clean_customer_data(raw.rows)])]

\* The raw rows with the text of their currency cells.
CurrencyText(rows) ==
    [i \in 1..Len(rows) |->
        [rows[i] EXCEPT !["Unit Cost USD"] = @.str, !["Unit Price USD"] = @.str]]

\* clean_product_data (lines 43-98) on any raw batch.
clean_product_data_call(raw) ==
    LET columns == RenamedColumns(raw.columns, PRODUCT_RENAME_COLUMNS)
    IN  IF RenameRaises(raw.columns, PRODUCT_RENAME_COLUMNS)
        THEN Failed("KeyError", "rename")
        ELSE IF "unit_cost_usd" \notin columns THEN Failed("KeyError", "unit_cost_usd")
        ELSE IF ApplyCurrencyRaises(raw.rows, "Unit Cost USD") # None
        THEN Failed(ApplyCurrencyRaises(raw.rows, "Unit Cost USD"), "unit_cost_usd")
        ELSE IF "unit_price_usd" \notin columns THEN Failed("KeyError", "unit_price_usd")
        ELSE IF ApplyCurrencyRaises(raw.rows, "Unit Price USD") # None
        THEN Failed(ApplyCurrencyRaises(raw.rows, "Unit Price USD"), "unit_price_usd")
        ELSE IF ~({"product_category_id", "product_category_name"} \subseteq columns)
        THEN Failed("KeyError", "not in index")
        ELSE IF ~({"product_subcategory_id", "product_subcategory_name"}
                    \subseteq columns)
        THEN Failed("KeyError", "not in index")
        ELSE IF ~(Range(PRODUCT_RETAIN_COLUMNS) \subseteq columns)
        THEN Failed("KeyError", "not in index")
        ELSE LET out == clean_product_data(CurrencyText(raw.rows))
             IN  [outcome |-> "returned", key |-> None,
                  frames |->
                    [n \in {"products", "categories", "subcategories"} |->
                        CASE n = "products" ->
                               [columns |-> PRODUCT_RETAIN_COLUMNS,
                                rows |-> out.products]
                          [] n = "categories" ->
                               [columns |-> CATEGORY_COLUMNS,
                                rows |-> out.categories]
                          [] n = "subcategories" ->
                               [columns |-> SUBCATEGORY_COLUMNS,
                                rows |-> out.subcategories]]]

\* ---- what a cleaner leaves of df_original
\* The column assignments written on the dataframe passed in.
AssignedObjectIsArgument == "argument"

\* The object the column assignments of cookbook1 lines 41-42 and cookbook2
\* lines 62-65 write to: the one the name df (df_products) holds since the
\* rename of line 27 (59), made of the copy of line 12 (43).
AssignedObject == NewObject(NewObject("argument"))

\* cookbook1 lines 41-42 on a frame: the country column is assigned when the
\* apply went through every row, then the city column.
AssignedCustomerFrame(raw) ==
    LET mapped == /\ "Country" \in raw.columns
                  /\ \A i \in 1..Len(raw.rows) :
                        raw.rows[i]["Country"] \in DOMAIN COUNTRY_NAME_TO_CODE
        titled == mapped /\ "City" \in raw.columns
    IN  [raw EXCEPT !.rows =
            [i \in 1..Len(raw.rows) |->
                LET r == IF mapped
                         THEN [raw.rows[i] EXCEPT
                                  !["Country"] = COUNTRY_NAME_TO_CODE[@]]
                         ELSE raw.rows[i]
                IN  IF titled THEN [r EXCEPT !["City"] = StrTitle(@)] ELSE r]]

\* cookbook2 lines 62-65 on a frame: the cost column is assigned when the
\* apply went through every row, then the price column.
AssignedProductFrame(raw) ==
    LET cost == /\ "Unit Cost USD" \in raw.columns
                /\ ApplyCurrencyRaises(raw.rows, "Unit Cost USD") = None
        price == /\ cost
                 /\ "Unit Price USD" \in raw.columns
                 /\ ApplyCurrencyRaises(raw.rows, "Unit Price USD") = None
    IN  [raw EXCEPT !.rows =
            [i \in 1..Len(raw.rows) |->
                LET r == IF cost
                         THEN [raw.rows[i] EXCEPT !["Unit Cost USD"] =
                                  [float |-> ParseCurrency(@.str)]]
                         ELSE raw.rows[i]
                IN  IF price
                    THEN [r EXCEPT !["Unit Price USD"] =
                             [float |-> ParseCurrency(@.str)]]
                    ELSE r]]

\* df_original after the call.
ArgumentAfterClean(kind, raw) ==
    IF AssignedObject # "argument" THEN raw
    ELSE IF kind = "customers" THEN AssignedCustomerFrame(raw)
    ELSE AssignedProductFrame(raw)

\* ---- the raw batches handed to the cleaners
\* A batch with every column of the rename table, or with one of them gone.
ColumnChoices(table) ==
    {DOMAIN table} \cup {DOMAIN table \ {c} : c \in DOMAIN table}

Restrict(rows, columns) ==
    [i \in 1..Len(rows) |-> [c \in columns \cup {"idx"} |-> rows[i][c]]]

CustomerRawBatches ==
    {[columns |-> cs, rows |-> Restrict(ReadCsv(records), cs)] :
        cs \in ColumnChoices(RENAME_COLUMNS),
        records \in SeqsUpTo(CleanerCustomerRecords, MaxRows)}

\* The category of Audio under another name.
Music == [CategoryKey |-> 1, Category |-> "Music",
          SubcategoryKey |-> 101, Subcategory |-> "Players"]

\* "$6.62 " and "$12.99 " as text and as the numbers 6.62 and 12.99;
\* "$430.38 " and "$1,299.00 ".
CleanerProductProfiles ==
    {RawProduct("MP3 Player", [str |-> <<"$","6",".","6","2"," ">>],
                [str |-> <<"$","1","2",".","9","9"," ">>], Audio),
     RawProduct("MP3 Player", [float |-> 662], [float |-> 1299], Audio),
     RawProduct("Laptop", [str |-> <<"$","4","3","0",".","3","8"," ">>],
                [str |-> <<"$","1",",","2","9","9",".","0","0"," ">>], Computers),
     RawProduct("Record Player", [str |-> <<"$","6",".","6","2"," ">>],
                [str |-> <<"$","1","2",".","9","9"," ">>], Music)}

CleanerProductRecords ==
    {[c \in DOMAIN p \cup {"ProductKey"} |->
        IF c = "ProductKey" THEN k ELSE p[c]] :
            k \in Keys, p \in CleanerProductProfiles}

ProductRawBatches ==
    {[columns |-> cs, rows |-> Restrict(ReadCsv(records), cs)] :
        cs \in ColumnChoices(PRODUCT_RENAME_COLUMNS),
        records \in SeqsUpTo(CleanerProductRecords, MaxRows)}

VARIABLES
    clean_kind,     \* which cleaner is called
    raw_batch,      \* df_original
    cleaned         \* what the call produced

clean_vars == <<clean_kind, raw_batch, cleaned>>

NotCleaned == [outcome |-> "pending", key |-> None, frames |-> <<>>]

CleanIdle ==
    /\ clean_kind = None
    /\ raw_batch = [columns |-> {}, rows |-> <<>>]
    /\ cleaned = NotCleaned

InitClean ==
    /\ clean_kind \in {"customers", "products"}
    /\ raw_batch \in IF clean_kind = "customers"
                     THEN CustomerRawBatches ELSE ProductRawBatches
    /\ cleaned = NotCleaned

CleanCustomers ==
    /\ clean_kind = "customers"
    /\ cleaned.outcome = "pending"
    /\ cleaned' = clean_customer_data_call(raw_batch)
    /\ raw_batch' = ArgumentAfterClean(clean_kind, raw_batch)
    /\ UNCHANGED clean_kind

CleanProducts ==
    /\ clean_kind = "products"
    /\ cleaned.outcome = "pending"
    /\ cleaned' = clean_product_data_call(raw_batch)
    /\ raw_batch' = ArgumentAfterClean(clean_kind, raw_batch)
    /\ UNCHANGED clean_kind

\* =========================================================================
\* Calls of the validators on the batches a caller may hand them
\* (cookbook1.validate_customer_data, cookbook2.validate_product_data)
\* =========================================================================
\* cookbook2 lines 169-223: the one expectation of the category suite.
validate_product_categories(df, columns) ==
    LET o1 == [expectation_type |-> "expect_table_columns_to_match_ordered_list",
               success |-> (columns = CATEGORY_COLUMN_LIST),
               result |-> [observed_value |-> "columns"]]
    IN  [result_format |-> "COMPLETE", success |-> o1.success, results |-> <<o1>>]

\* cookbook2 lines 226-280: the one expectation of the subcategory suite.
validate_product_subcategories(df, columns) ==
    LET o1 == [expectation_type |-> "expect_table_columns_to_match_ordered_list",
               success |-> (columns = SUBCATEGORY_COLUMN_LIST),
               result |-> [observed_value |-> "columns"]]
    IN  [result_format |-> "COMPLETE", success |-> o1.success, results |-> <<o1>>]

\* The tuple with the last two results changing places.
validate_product_data_swapped(products, categories, subcategories) ==
    <<validate_products(products.rows, products.columns),
      validate_product_subcategories(subcategories.rows, subcategories.columns),
      validate_product_categories(categories.rows, categories.columns)>>

\* cookbook2 lines 283-313; a batch is a record of its columns and its rows.
validate_product_data(products, categories, subcategories) ==
    <<validate_products(products.rows, products.columns),
      validate_product_categories(categories.rows, categories.columns),
      validate_product_subcategories(subcategories.rows, subcategories.columns)>>

\* ---- the cleaned customer batches of the tests: the columns of the
\* fixtures (with dob) or those the cleaner retains; a key or none, a zip or
\* none, a date or free text as dob, a country code of the set or not.
FIXTURE_CUSTOMER_COLUMNS ==
    <<"customer_id", "name", "dob", "city", "state", "zip", "country">>

CleanedCustomerRows ==
    [idx : {0}, customer_id : {123, NaN}, name : {"Cookie Monster"},
     dob : {"1966-11-02", "June 1, 1969"}, city : {"New York"}, state : {"NY"},
     zip : {"10123", None}, country : {"US", "XX"}]

CleanedCustomerBatches ==
    {[columns |-> cs,
      rows |-> Restrict(ResetIndex(rows), Range(cs))] :
        cs \in {FIXTURE_CUSTOMER_COLUMNS, CUSTOMER_COLUMN_LIST},
        rows \in SeqsUpTo(CleanedCustomerRows, MaxRows)}

\* ---- the cleaned product batches: the canonical columns, the same in
\* another order, or without the color; prices in cents, among them a price
\* of one dollar, a price under it, a price equal to the cost and a price
\* below it.
ProductColumnLists ==
    {PRODUCT_RETAIN_COLUMNS,
     <<"name", "product_id", "brand", "color", "unit_cost_usd", "unit_price_usd",
       "product_category_id", "product_subcategory_id">>,
     <<"product_id", "name", "brand", "unit_cost_usd", "unit_price_usd",
       "product_category_id", "product_subcategory_id">>}

CostsAndPrices == {<<662, 1299>>, <<50, 100>>, <<56, 99>>, <<200, 200>>,
                   <<91342, 49909>>}

CleanedProductRow(product_id, cost_and_price) ==
    [idx |-> product_id - 1, product_id |-> product_id, name |-> "Fan",
     brand |-> "Litware", color |-> "Blue",
     unit_cost_usd |-> cost_and_price[1], unit_price_usd |-> cost_and_price[2],
     product_category_id |-> 8, product_subcategory_id |-> 808]

CleanedProductBatches ==
    {[columns |-> cs,
      rows |-> Restrict([i \in 1..Len(cps) |-> CleanedProductRow(i, cps[i])],
                        Range(cs))] :
        cs \in ProductColumnLists,
        cps \in SeqsUpTo(CostsAndPrices, MaxRows)}

\* The lookup batches: the category or the subcategory columns, the same in
\* another order, with a column more, or with the id under another name.
LookupBatches ==
    {[columns |-> cs,
      rows |-> <<[c \in Range(cs) \cup {"idx"} |->
                    CASE c = "idx" -> 0
                      [] c \in {"name", "extra_col"} -> "category 3"
                      [] OTHER -> 3]>>] :
        cs \in {CATEGORY_COLUMNS, SUBCATEGORY_COLUMNS,
                <<"name", "product_category_id">>,
                <<"product_category_id", "name", "extra_col">>,
                <<"subcategory_id", "name">>}}

VARIABLES
    val_kind,       \* which validator is called
    val_batch,      \* the batches passed in
    val_result      \* what the call returned

val_vars == <<val_kind, val_batch, val_result>>

NotValidated == <<>>

ValIdle ==
    /\ val_kind = None
    /\ val_batch = <<>>
    /\ val_result = NotValidated

InitValidate ==
    /\ val_kind \in {"customers", "products"}
    /\ val_batch \in IF val_kind = "customers"
                     THEN {<<b>> : b \in CleanedCustomerBatches}
                     ELSE CleanedProductBatches \X LookupBatches \X LookupBatches
    /\ val_result = NotValidated

ValidateCustomers ==
    /\ val_kind = "customers"
    /\ val_result = NotValidated
    /\ val_result' = <<validate_customer_data(val_batch[1].rows,
                                              val_batch[1].columns)>>
    /\ UNCHANGED <<val_kind, val_batch>>

ValidateProducts ==
    /\ val_kind = "products"
    /\ val_result = NotValidated
    /\ val_result' = validate_product_data(val_batch[1], val_batch[2],
                                           val_batch[3])
    /\ UNCHANGED <<val_kind, val_batch>>

aux_vars == <<cloud_vars, clean_vars, log_records, val_vars, tx_vars>>
AuxIdle == CloudIdle /\ CleanIdle /\ log_records = <<>> /\ ValIdle /\ TxIdle

vars == <<sep_vars, ins_vars, poll_vars, run_vars, aux_vars>>

NextPartition == Separate /\ UNCHANGED <<ins_vars, poll_vars, run_vars, aux_vars>>

PartitionStart == InitPartition /\ InsIdle /\ PollIdle /\ RunIdle /\ AuxIdle

SpecPartition == PartitionStart /\ [][NextPartition]_vars

NextInsert == InsertCall /\ UNCHANGED <<sep_vars, poll_vars, run_vars, aux_vars>>

InsertStart == InitInsert /\ SepIdle /\ PollIdle /\ RunIdle /\ AuxIdle

SpecInsert == InsertStart /\ [][NextInsert]_vars

NextPoll ==
    \/ TriggerDag /\ UNCHANGED <<sep_vars, ins_vars, run_vars, aux_vars>>
    \/ FirstCheck /\ UNCHANGED <<sep_vars, ins_vars, run_vars, aux_vars>>
    \/ WhileExit /\ UNCHANGED <<sep_vars, ins_vars, run_vars, aux_vars>>
    \/ Sleep /\ UNCHANGED <<sep_vars, ins_vars, run_vars, aux_vars>>
    \/ LoopCheck /\ UNCHANGED <<sep_vars, ins_vars, run_vars, aux_vars>>

PollStart == InitPoll /\ SepIdle /\ InsIdle /\ RunIdle /\ AuxIdle

SpecPoll == PollStart /\ [][NextPoll]_vars

\* The interpreter runs the call to its end: every API call of the client
\* answers or raises, and every sleep returns.
FairSpecPoll == SpecPoll /\ WF_vars(NextPoll)

\* One run of one DAG callable.
Next ==
    \/ Cookbook1Load /\ UNCHANGED <<sep_vars, ins_vars, poll_vars, aux_vars>>
    \/ Cookbook1Clean /\ UNCHANGED <<sep_vars, ins_vars, poll_vars, aux_vars>>
    \/ Cookbook1Validate /\ UNCHANGED <<sep_vars, ins_vars, poll_vars, aux_vars>>
    \/ Cookbook1Halt /\ UNCHANGED <<sep_vars, ins_vars, poll_vars, aux_vars>>
    \/ Cookbook1Insert /\ UNCHANGED <<sep_vars, ins_vars, poll_vars, aux_vars>>
    \/ Cookbook2Load /\ UNCHANGED <<sep_vars, ins_vars, poll_vars, aux_vars>>
    \/ Cookbook2Clean /\ UNCHANGED <<sep_vars, ins_vars, poll_vars, aux_vars>>
    \/ Cookbook2Validate /\ UNCHANGED <<sep_vars, ins_vars, poll_vars, aux_vars>>
    \/ Cookbook2Halt /\ UNCHANGED <<sep_vars, ins_vars, poll_vars, aux_vars>>
    \/ Cookbook2InsertCategories /\ UNCHANGED <<sep_vars, ins_vars, poll_vars, aux_vars>>
    \/ Cookbook2InsertSubcategories /\ UNCHANGED <<sep_vars, ins_vars, poll_vars, aux_vars>>
    \/ Cookbook2Separate /\ UNCHANGED <<sep_vars, ins_vars, poll_vars, aux_vars>>
    \/ Cookbook2WriteInvalid /\ UNCHANGED <<sep_vars, ins_vars, poll_vars, aux_vars>>
    \/ Cookbook2KeepAll /\ UNCHANGED <<sep_vars, ins_vars, poll_vars, aux_vars>>
    \/ Cookbook2InsertProducts /\ UNCHANGED <<sep_vars, ins_vars, poll_vars, aux_vars>>

Init == InitRun /\ SepIdle /\ InsIdle /\ PollIdle /\ AuxIdle

Spec == Init /\ [][Next]_vars

\* The three DAG callables: the two ingest runs and the table validation.
NextDags ==
    \/ Next
    \/ Cookbook3RunCheckpoint
         /\ UNCHANGED <<sep_vars, ins_vars, poll_vars, cloud_vars, clean_vars,
                      val_vars, tx_vars>>
    \/ Cookbook3LogInfo
         /\ UNCHANGED <<sep_vars, ins_vars, poll_vars, cloud_vars, clean_vars,
                      val_vars, tx_vars>>
    \/ Cookbook3LogWarning
         /\ UNCHANGED <<sep_vars, ins_vars, poll_vars, cloud_vars, clean_vars,
                      val_vars, tx_vars>>

DagsStart ==
    (InitRun \/ InitCookbook3) /\ SepIdle /\ InsIdle /\ PollIdle /\ AuxIdle

SpecDags == DagsStart /\ [][NextDags]_vars

\* The product run on a file of three rows and more, every row under a key
\* of its own.
ScenarioBatches ==
    UNION {{[i \in 1..n |->
                [c \in DOMAIN p[i] \cup {"ProductKey"} |->
                    IF c = "ProductKey" THEN i ELSE p[i][c]]] :
            p \in [1..n -> RawProductProfiles]} : n \in 3..MaxScenarioRows}

InitScenario ==
    /\ dag = "cookbook2"
    /\ pc = "load"
    /\ csv \in ScenarioBatches
    /\ df_raw = NoFrame
    /\ df_customers = NoFrame
    /\ df_products = NoFrame
    /\ df_product_categories = NoFrame
    /\ df_product_subcategories = NoFrame
    /\ validation = [n \in {} |-> NoResult]
    /\ df_products_valid = NoFrame
    /\ df_products_invalid = NoFrame
    /\ db \in {EmptyDb, SeededDb}
    /\ db0 = db
    /\ error_file = NoFile
    /\ stages = <<>>
    /\ run_error = None

ScenarioStart ==
    (InitRun \/ InitScenario) /\ SepIdle /\ InsIdle /\ PollIdle /\ AuxIdle

SpecScenario == ScenarioStart /\ [][Next]_vars

\* The credentials check, called while the environment changes.
NextCloud ==
    \/ SetEnv /\ UNCHANGED <<sep_vars, ins_vars, poll_vars, run_vars, clean_vars,
                      log_records, val_vars, tx_vars>>
    \/ CredentialsExist
         /\ UNCHANGED <<sep_vars, ins_vars, poll_vars, run_vars, clean_vars,
                      log_records, val_vars, tx_vars>>

CloudStart ==
    InitCloud /\ SepIdle /\ InsIdle /\ PollIdle /\ RunIdle /\ CleanIdle
    /\ log_records = <<>>
    /\ ValIdle /\ TxIdle

\* One call of one cleaner.
NextClean ==
    \/ CleanCustomers
         /\ UNCHANGED <<sep_vars, ins_vars, poll_vars, run_vars, cloud_vars,
                      log_records, val_vars, tx_vars>>
    \/ CleanProducts
         /\ UNCHANGED <<sep_vars, ins_vars, poll_vars, run_vars, cloud_vars,
                      log_records, val_vars, tx_vars>>

CleanStart ==
    InitClean /\ SepIdle /\ InsIdle /\ PollIdle /\ RunIdle /\ CloudIdle
    /\ log_records = <<>>
    /\ ValIdle /\ TxIdle

SpecClean == CleanStart /\ [][NextClean]_vars

SpecCloud == CloudStart /\ [][NextCloud]_vars

\* Two runs inserting the same dataframe, their statements interleaved.
NextTx ==
    \/ TxInsert
         /\ UNCHANGED <<sep_vars, ins_vars, poll_vars, run_vars, cloud_vars,
                        clean_vars, log_records, val_vars>>
    \/ TxEnd
         /\ UNCHANGED <<sep_vars, ins_vars, poll_vars, run_vars, cloud_vars,
                        clean_vars, log_records, val_vars>>

TxStart ==
    /\ InitTx /\ SepIdle /\ InsIdle /\ PollIdle /\ RunIdle
    /\ CloudIdle /\ CleanIdle /\ log_records = <<>> /\ ValIdle

SpecTx == TxStart /\ [][NextTx]_vars

\* One call of a cleaner or of the partitioner.
NextCall ==
    \/ NextClean
    \/ NextPartition

CallStart == CleanStart \/ PartitionStart

SpecCall == CallStart /\ [][NextCall]_vars

\* One call of one validator.
NextValidate ==
    \/ ValidateCustomers
         /\ UNCHANGED <<sep_vars, ins_vars, poll_vars, run_vars, cloud_vars,
                        clean_vars, log_records, tx_vars>>
    \/ ValidateProducts
         /\ UNCHANGED <<sep_vars, ins_vars, poll_vars, run_vars, cloud_vars,
                        clean_vars, log_records, tx_vars>>

ValidateStart ==
    /\ InitValidate /\ SepIdle /\ InsIdle /\ PollIdle /\ RunIdle
    /\ CloudIdle /\ CleanIdle /\ log_records = <<>> /\ TxIdle

SpecValidate == ValidateStart /\ [][NextValidate]_vars

\* =========================================================================
\* Properties of the partitioner (SpecPartition)
\* =========================================================================
PidSet(df) == {df[i].product_id : i \in 1..Len(df)}
PidSeq(df) == [i \in 1..Len(df) |-> df[i].product_id]
UniqueIndex(df) == \A i, j \in 1..Len(df) : df[i].idx = df[j].idx => i = j

\* The keys some failing outcome lists, in the words of the claims.
FlaggedKeys(validation_result) ==
    {k \in Keys :
        \E i \in 1..Len(validation_result.results) :
            LET o == validation_result.results[i]
            IN  /\ o.success = FALSE
                /\ "unexpected_index_list" \in DOMAIN o.result
                /\ k \in Range(o.result.unexpected_index_list)}

\* C1: for any batch and any COMPLETE-mode result, the product_id sets of the
\* two outputs are disjoint and their union is the product_id set of the
\* input batch.
C1_KeySetsPartitionInput ==
    (sep_out.outcome = "returned" /\ sep_result.result_format = "COMPLETE") =>
        /\ PidSet(sep_out.valid) \cap PidSet(sep_out.invalid) = {}
        /\ PidSet(sep_out.valid) \cup PidSet(sep_out.invalid) = PidSet(sep_df)

\* C2: for every batch, whatever its index labels and repeated product_ids,
\* len(valid) + len(invalid) = len(batch).
C2_LengthsAddUp ==
    sep_out.outcome = "returned" =>
        Len(sep_out.valid) + Len(sep_out.invalid) = Len(sep_df)

\* C3: the invalid output holds exactly the rows whose product_id is listed by
\* some failing outcome (successful outcomes contribute nothing, a key listed
\* twice counts once), and all the other rows are in the valid output.
C3_InvalidIffFlagged ==
    sep_out.outcome = "returned" =>
        LET flagged == FlaggedKeys(sep_result)
        IN  /\ PidSeq(sep_out.invalid) =
                 PidSeq(SelectSeq(sep_df, LAMBDA r : r.product_id \in flagged))
            /\ PidSeq(sep_out.valid) =
                 PidSeq(SelectSeq(sep_df, LAMBDA r : r.product_id \notin flagged))

\* The three statements above on the batches whose index labels are unique.
PartitionHoldsOnUniqueIndex ==
    UniqueIndex(sep_df) =>
        (C1_KeySetsPartitionInput /\ C2_LengthsAddUp /\ C3_InvalidIffFlagged)

\* C13 as stated: a call with a result that is not in COMPLETE format fails
\* and returns no partition.
C13_FailsWithoutCompleteFormat ==
    (sep_out.outcome # "pending" /\ sep_result.result_format # "COMPLETE") =>
        (sep_out.outcome = "KeyError" /\ sep_out.valid = <<>>
         /\ sep_out.invalid = <<>>)

\* C13 amended: a call with a result that is not in COMPLETE format and
\* holds a failing outcome raises KeyError (the failing outcome has no
\* unexpected_index_list) and returns no partition; without a failing
\* outcome the call returns the whole batch as valid and nothing as invalid.
C13_FailsOnFailingOutcomeWithoutList ==
    (sep_out.outcome # "pending" /\ sep_result.result_format # "COMPLETE") =>
        IF FailingExpectations(sep_result) # <<>>
        THEN /\ sep_out.outcome = "KeyError"
             /\ sep_out.valid = <<>> /\ sep_out.invalid = <<>>
        ELSE /\ sep_out.outcome = "returned"
             /\ PidSeq(sep_out.valid) = PidSeq(sep_df)
             /\ sep_out.invalid = <<>>

\* A failing row-level outcome in SUMMARY format, on a batch of two rows.
C13_Witness ==
    /\ sep_out.outcome = "KeyError"
    /\ sep_result.result_format = "SUMMARY"
    /\ sep_result.results[1].success
    /\ ~sep_result.results[2].success
    /\ Len(sep_df) = 2

\* =========================================================================
\* Properties of the insert (SpecInsert)
\* =========================================================================
BatchKeys(df, keys) == {df[i][keys[1]] : i \in 1..Len(df)}

\* C6: a second call with the same batch inserts 0 rows and leaves the table
\* as the first call left it.
C6_SecondInsertAddsNothing ==
    Len(ins_log) >= 2 =>
        /\ ins_log[2].rows_inserted = 0
        /\ ins_log[2].after = ins_log[1].after

C6_Witness ==
    /\ Len(ins_log) >= 2
    /\ ins_log[1].rows_inserted > 0
    /\ \E k \in DOMAIN ins_log[1].before : k \in BatchKeys(ins_df, InsertColumns)

\* C7: every call leaves the rows already stored as they were, and returns the
\* number of rows it added: the distinct keys of the batch that the table did
\* not hold before the call.
C7_SkipsExistingAndCountsNew ==
    \A c \in 1..Len(ins_log) :
        LET e == ins_log[c]
        IN  /\ \A k \in DOMAIN e.before :
                  k \in DOMAIN e.after /\ e.after[k] = e.before[k]
            /\ DOMAIN e.after = DOMAIN e.before \cup BatchKeys(ins_df, InsertColumns)
            /\ e.rows_inserted = Cardinality(DOMAIN e.after \ DOMAIN e.before)
            /\ e.rows_inserted =
                 Cardinality(BatchKeys(ins_df, InsertColumns) \ DOMAIN e.before)

\* A call whose batch holds a stored key under another payload (skipped) and
\* a key the table does not hold (inserted).
C7_Witness ==
    /\ Len(ins_log) >= 1
    /\ \E i \in 1..Len(ins_df) :
          /\ ins_df[i].id \in DOMAIN ins_log[1].before
          /\ ins_log[1].before[ins_df[i].id].val # ins_df[i].val
    /\ \E i \in 1..Len(ins_df) : ins_df[i].id \notin DOMAIN ins_log[1].before
    /\ ins_log[1].rows_inserted = 1

\* =========================================================================
\* Properties of the poller (SpecPoll, FairSpecPoll)
\* =========================================================================
IsPrefix(s, t) == Len(s) <= Len(t) /\ \A i \in 1..Len(s) : s[i] = t[i]

LinearWaits == [i \in 1..(CompletionCheckLimit - 1) |-> i * SleepSeconds]

PollBounded ==
    /\ Len(check_log) <= CompletionCheckLimit
    /\ IsPrefix(sleeps, LinearWaits)
    /\ sleeps \in {<<>>, <<10>>, <<10, 20>>, <<10, 20, 30>>}
    /\ poll_pc = "returned" => dag_run_finished
    /\ (poll_pc = "raised" /\ poll_error = "Test DAG is still running") =>
          /\ Len(check_log) = CompletionCheckLimit
          /\ sleeps = <<10, 20, 30>>

\* C9: the call terminates whatever the scheduler answers: it returns after a
\* status check that reports the run finished, or raises, the 'still running'
\* error coming after exactly 4 status checks and the waits 10 s, 20 s, 30 s;
\* it never makes a fifth check.
C9_PollTerminates == []PollBounded /\ <>PollTerminated

C9_Witness ==
    /\ poll_pc = "raised"
    /\ poll_error = "Test DAG is still running"
    /\ Len(check_log) = 4
    /\ sleeps = <<10, 20, 30>>

\* C10: dag_run_completed returns True exactly when the end date is set and
\* the state is neither queued nor running.
C10_CompletedIffEndedAndNotActive ==
    check_log # <<>> =>
        (dag_run_finished = TRUE <=>
            (/\ api_response.end_date # None
             /\ api_response.state # "queued"
             /\ api_response.state # "running"))

\* A check answered with an end date and the state running: not completed.
C10_Witness ==
    /\ check_log # <<>>
    /\ api_response.end_date # None
    /\ api_response.state = "running"
    /\ dag_run_finished = FALSE

\* The exceptions of lines 39 and 84: the API call raised OpenApiException.
ServiceErrors == {"Exception when calling DagAPI->get_dags",
                  "Error calling DAGRunApi->get_dag_run"}

\* C11: a scheduler call that fails is retried, so the error of an
\* unreachable service is surfaced only after the same call has failed at
\* least twice (the first attempt and one retry or more).
C11_RetriedBeforeSurfacing ==
    poll_error \in ServiceErrors =>
        /\ Len(failed_attempts) >= 2
        /\ failed_attempts[Len(failed_attempts)] =
              failed_attempts[Len(failed_attempts) - 1]

\* C11 amended: a scheduler call that fails is not retried; its first
\* failure ends the call with the error of lines 39 or 84, and no other way
\* leads to that error. The only waits are the linearly growing ones between
\* completion checks.
C11_SurfacedAtFirstFailure ==
    /\ Len(failed_attempts) <= 1
    /\ failed_attempts # <<>> <=> poll_error \in ServiceErrors
    /\ failed_attempts = <<"get_dags">> =>
          (poll_pc = "raised" /\ sleeps = <<>> /\ check_log = <<>>
           /\ poll_error = "Exception when calling DagAPI->get_dags")
    /\ failed_attempts = <<"get_dag_run">> =>
          (poll_pc = "raised" /\ Len(sleeps) = Len(check_log)
           /\ poll_error = "Error calling DAGRunApi->get_dag_run")
    /\ IsPrefix(sleeps, LinearWaits)

\* A status call failing after two completed checks and two waits.
C11_Witness ==
    /\ poll_error = "Error calling DAGRunApi->get_dag_run"
    /\ sleeps = <<SleepSeconds, 2 * SleepSeconds>>
    /\ failed_attempts = <<"get_dag_run">>

\* =========================================================================
\* Properties of the DAG callables (Spec)
\* =========================================================================
Validated(name) == name \in DOMAIN validation
Writes == {"WRITE customers", "WRITE product_category",
           "WRITE product_subcategory", "WRITE products"}
Wrote == \E i \in 1..Len(stages) : stages[i] \in Writes
Pos(stage) == CHOOSE i \in 1..Len(stages) : stages[i] = stage
Happened(stage) == \E i \in 1..Len(stages) : stages[i] = stage

HardFailed ==
    \/ dag = "cookbook1" /\ Validated("customers")
         /\ ~validation["customers"].success
    \/ dag = "cookbook2" /\ Validated("categories")
         /\ (~validation["categories"].success
             \/ ~validation["subcategories"].success)

\* C4: a failed customers, category or subcategory validation makes the run
\* raise before any insert: the run is at the halt test, which sends it to
\* the raise, or has raised; every table is as the run found it and no error
\* file is written.
C4_HardFailAbortsBeforePersistence ==
    HardFailed =>
        /\ db = db0
        /\ error_file = NoFile
        /\ ~Wrote
        /\ pc \in {"halt_check", "raised"}
        /\ pc = "halt_check" =>
              IF dag = "cookbook1" THEN Cookbook1MustHalt(validation)
              ELSE Cookbook2MustHalt(validation)
        /\ pc = "raised" =>
              /\ stages[Len(stages)] = "ABORTED"
              /\ run_error \in
                   {"GX data validation failed.",
                    "GX data validation for product categories failed.",
                    "GX data validation for product subcategories failed."}

\* A subcategory failure alone, on a store that holds rows and a batch that
\* brings new ones, ended by the raise.
C4_Witness ==
    /\ dag = "cookbook2" /\ pc = "raised"
    /\ Validated("categories")
    /\ validation["categories"].success
    /\ ~validation["subcategories"].success
    /\ db0 = SeededDb
    /\ \E i \in 1..Len(df_products) : df_products[i].product_id \notin DOMAIN db0["products"]

SoftFailed ==
    /\ dag = "cookbook2" /\ Validated("products")
    /\ ~validation["products"].success
    /\ validation["categories"].success
    /\ validation["subcategories"].success

FlaggedRows == SelectSeq(df_products,
                  LAMBDA r : r.product_id \in FlaggedKeys(validation["products"]))
UnflaggedRows == SelectSeq(df_products,
                  LAMBDA r : r.product_id \notin FlaggedKeys(validation["products"]))

\* C5: when only the products validation fails the run does not abort: it
\* goes on through the partition, the export of the invalid rows and the
\* insert of the valid rows to its end, and no row with a flagged product_id
\* is inserted.
C5_SoftFailPersistsValidSubset ==
    /\ SoftFailed =>
          /\ pc \in {"halt_check", "insert_subcategories", "products_check",
                     "write_invalid", "insert_products", "done"}
          /\ pc = "halt_check" => ~Cookbook2MustHalt(validation)
          /\ pc = "products_check" => ~SeparateRaises(validation["products"])
          /\ pc \in {"write_invalid", "insert_products", "done"} =>
                /\ Happened("PARTITIONED")
                /\ PidSeq(df_products_invalid) = PidSeq(FlaggedRows)
                /\ PidSeq(df_products_valid) = PidSeq(UnflaggedRows)
          /\ pc \in {"insert_products", "done"} =>
                /\ error_file.written
                /\ error_file.rows = ToCsv(FlaggedRows, PRODUCT_RETAIN_COLUMNS)
    /\ (SoftFailed /\ pc = "done") =>
          /\ DOMAIN db["products"] = DOMAIN db0["products"] \cup PidSet(UnflaggedRows)
          /\ \A k \in DOMAIN db0["products"] : db["products"][k] = db0["products"][k]
          /\ \A k \in DOMAIN db["products"] \ DOMAIN db0["products"] :
                \E i \in 1..Len(UnflaggedRows) :
                    db["products"][k] = StoredRow(PRODUCT_RETAIN_COLUMNS, UnflaggedRows[i])
    /\ (dag = "cookbook2" /\ Validated("products")) =>
          \A k \in DOMAIN db["products"] \ DOMAIN db0["products"] :
              k \notin FlaggedKeys(validation["products"])

\* A finished run that exported one row and inserted another.
C5_Witness ==
    /\ SoftFailed /\ pc = "done"
    /\ Len(error_file.rows) = 1
    /\ DOMAIN db["products"] # DOMAIN db0["products"]

\* The order the state machine of the claim gives the stages.
ClaimedRank(stage) ==
    CASE stage = "LOADED" -> 1
      [] stage = "CLEANED" -> 2
      [] stage = "VALIDATED" -> 3
      [] stage = "PARTITIONED" -> 4
      [] stage \in Writes \cup {"EXPORTED"} -> 5
      [] stage = "DONE" -> 6
      [] OTHER -> 7

\* The order the callables take them in.
ActualRank(stage) ==
    CASE stage = "LOADED" -> 1
      [] stage = "CLEANED" -> 2
      [] stage = "VALIDATED" -> 3
      [] stage = "WRITE product_category" -> 4
      [] stage = "WRITE product_subcategory" -> 5
      [] stage = "PARTITIONED" -> 6
      [] stage = "EXPORTED" -> 7
      [] stage \in {"WRITE products", "WRITE customers"} -> 8
      [] stage = "DONE" -> 9
      [] OTHER -> 10

AbortedOnlyFromValidated ==
    \A i \in 1..Len(stages) :
        stages[i] = "ABORTED" =>
            /\ i > 1 /\ stages[i - 1] = "VALIDATED"
            /\ \A j \in 1..Len(stages) : stages[j] \notin Writes

NoWriteBeforeValidated ==
    \A i \in 1..Len(stages) :
        stages[i] \in Writes =>
            /\ \E j \in 1..(i - 1) : stages[j] = "VALIDATED"
            /\ dag = "cookbook1" => Validated("customers")
            /\ dag = "cookbook2" =>
                  Validated("products") /\ Validated("categories")
                  /\ Validated("subcategories")

NoWriteBeforePartition ==
    Happened("PARTITIONED") =>
        \A i \in 1..Len(stages) : stages[i] \in Writes => Pos("PARTITIONED") < i

\* C8 as stated: the stages come in the order LOADED, CLEANED, VALIDATED,
\* PARTITIONED (optional), PERSISTED, DONE; no write to the store before the
\* validations have finished nor before partitioning; ABORTED only from
\* VALIDATED and never after a write.
C8_StagesInClaimedOrder ==
    /\ \A i, j \in 1..Len(stages) :
          i < j => ClaimedRank(stages[i]) <= ClaimedRank(stages[j])
    /\ NoWriteBeforeValidated
    /\ NoWriteBeforePartition
    /\ AbortedOnlyFromValidated

\* C8 amended: LOADED, CLEANED, VALIDATED, the category and subcategory
\* writes, PARTITIONED and the export (when they take place), the products (or
\* customers) write, DONE; no write before the validations have finished; a
\* failed products validation is partitioned before the products write;
\* ABORTED only from VALIDATED and never after a write.
C8_StagesInActualOrder ==
    /\ \A i, j \in 1..Len(stages) :
          i < j => ActualRank(stages[i]) < ActualRank(stages[j])
    /\ NoWriteBeforeValidated
    /\ AbortedOnlyFromValidated
    /\ Happened("PARTITIONED") =>
          (Happened("WRITE products") => Pos("PARTITIONED") < Pos("WRITE products"))
    /\ (Happened("WRITE products") /\ ~validation["products"].success) =>
          Happened("PARTITIONED")
    /\ Happened("DONE") => (stages[Len(stages)] = "DONE" /\ Wrote)

C8_Witness ==
    stages = <<"LOADED", "CLEANED", "VALIDATED", "WRITE product_category",
               "WRITE product_subcategory", "PARTITIONED", "EXPORTED",
               "WRITE products", "DONE">>

\* =========================================================================
\* Properties of the credentials check (SpecCloud)
\* =========================================================================
Present(value) == value # None /\ value # ""

\* C12: the call returns True exactly when both variables are defined and
\* non-empty; otherwise it raises ValueError, naming the organization id
\* variable whenever that one is missing or empty, and the access token
\* variable only when the organization id is present.
C12_TrueIffBothPresent ==
    \A i \in 1..Len(credentials_log) :
        LET org == credentials_log[i].env[GX_CLOUD_ORGANIZATION_ID]
            token == credentials_log[i].env[GX_CLOUD_ACCESS_TOKEN]
            out == credentials_log[i].out
        IN  /\ out.returned = "True" <=> (Present(org) /\ Present(token))
            /\ out.returned # "True" =>
                  /\ out.returned = "raised" /\ out.error = "ValueError"
                  /\ ~Present(org) <=>
                        out.message =
                          "GX_CLOUD_ORGANIZATION_ID environment variable is undefined."
                  /\ (Present(org) /\ ~Present(token)) <=>
                        out.message =
                          "GX_CLOUD_ACCESS_TOKEN environment variable is undefined."

\* Both variables missing: the error names the organization id; then, the
\* organization id set and the token empty: the error names the token.
C12_Witness ==
    /\ Len(credentials_log) = 2
    /\ credentials_log[1].env[GX_CLOUD_ORGANIZATION_ID] = None
    /\ credentials_log[1].env[GX_CLOUD_ACCESS_TOKEN] = None
    /\ credentials_log[1].out.message =
          "GX_CLOUD_ORGANIZATION_ID environment variable is undefined."
    /\ credentials_log[2].env[GX_CLOUD_ORGANIZATION_ID] = "<test-org-id>"
    /\ credentials_log[2].env[GX_CLOUD_ACCESS_TOKEN] = ""
    /\ credentials_log[2].out.message =
          "GX_CLOUD_ACCESS_TOKEN environment variable is undefined."

\* =========================================================================
\* Properties of the cleaners (SpecClean)
\* =========================================================================
Returned(kind) == clean_kind = kind /\ cleaned.outcome = "returned"
Called(kind) == clean_kind = kind /\ cleaned.outcome # "pending"

ColumnsOf(frame) ==
    \A i \in 1..Len(frame.rows) :
        DOMAIN frame.rows[i] \ {"idx"} = Range(frame.columns)

\* The cleaned customer batch has the columns the validator lists, in order.
CustomerColumnsCanonical ==
    Returned("customers") =>
        /\ cleaned.frames["customers"].columns = CUSTOMER_COLUMN_LIST
        /\ ColumnsOf(cleaned.frames["customers"])

\* C14: for every raw customer batch the cleaner accepts, the output has
\* exactly the canonical columns in the declared order and no row with a
\* null customer_id.
C14_CanonicalColumnsNoNullKey ==
    Returned("customers") =>
        /\ cleaned.frames["customers"].columns = CUSTOMER_COLUMN_LIST
        /\ ColumnsOf(cleaned.frames["customers"])
        /\ \A i \in 1..Len(cleaned.frames["customers"].rows) :
              cleaned.frames["customers"].rows[i].customer_id # NaN

\* The rename table of the cleaner that was called.
RenameTable == IF clean_kind = "customers" THEN RENAME_COLUMNS
               ELSE PRODUCT_RENAME_COLUMNS

\* C16 as stated: a raw batch that lacks any source column of the rename
\* table makes the cleaner fail; no cleaned batch is returned for it.
C16_FailsOnAnyMissingColumn ==
    (cleaned.outcome # "pending"
     /\ ~(DOMAIN RenameTable \subseteq raw_batch.columns)) =>
        (cleaned.outcome # "returned" /\ cleaned.frames = <<>>)

\* The source columns clean_customer_data reads after the rename.
CustomerColumnsRead ==
    {"CustomerKey", "Name", "City", "State Code", "Zip Code", "Country"}

\* C16 amended: clean_product_data fails when any source column of its
\* rename table is missing (with KeyError, unless a currency cell read before
\* the missing column is reached raises first); clean_customer_data raises
\* KeyError when
\* CustomerKey, Name, City, State Code, Zip Code or Country is missing, and
\* cleans a batch that lacks only Gender, Continent or Birthday as it cleans
\* any other (it fails only on a country without a code).
C16_FailsOnMissingColumnItReads ==
    /\ (Called("products")
        /\ ~(DOMAIN PRODUCT_RENAME_COLUMNS \subseteq raw_batch.columns)) =>
          /\ cleaned.outcome \in {"KeyError", "AttributeError", "ValueError"}
          /\ cleaned.frames = <<>>
          /\ cleaned.outcome # "KeyError" =>
                \E i \in 1..Len(raw_batch.rows),
                   c \in {"Unit Cost USD", "Unit Price USD"} \cap raw_batch.columns :
                      CurrencyLambdaRaises(raw_batch.rows[i][c]) = cleaned.outcome
    /\ (Called("customers") /\ ~(CustomerColumnsRead \subseteq raw_batch.columns)) =>
          (cleaned.outcome = "KeyError" /\ cleaned.frames = <<>>)
    /\ (Called("customers") /\ CustomerColumnsRead \subseteq raw_batch.columns) =>
          /\ cleaned.outcome = "returned" <=> ~CleanCustomerRaises(raw_batch.rows)
          /\ cleaned.outcome = "returned" =>
                cleaned.frames["customers"].rows = clean_customer_data(raw_batch.rows)

\* A customer batch of two rows without the Gender column, cleaned.
C16_Witness ==
    /\ Returned("customers")
    /\ "Gender" \notin raw_batch.columns
    /\ Len(cleaned.frames["customers"].rows) = 2

Injective(f) == \A a, b \in DOMAIN f : f[a] = f[b] => a = b

\* C17: the country table maps 8 names to 8 distinct two-letter codes, which
\* are the value set the validator accepts; a batch with a country outside
\* the table makes cleaning fail, and a cleaned batch carries the code of
\* every row's country.
C17_CountryMappingTotalOrFails ==
    /\ Cardinality(DOMAIN COUNTRY_NAME_TO_CODE) = 8
    /\ Injective(COUNTRY_NAME_TO_CODE)
    /\ \A name \in DOMAIN COUNTRY_NAME_TO_CODE : Len(COUNTRY_NAME_TO_CODE[name]) = 2
    /\ {COUNTRY_NAME_TO_CODE[name] : name \in DOMAIN COUNTRY_NAME_TO_CODE}
          = COUNTRY_VALUE_SET
    /\ (Called("customers") /\ "Country" \in raw_batch.columns) =>
          /\ (\E i \in 1..Len(raw_batch.rows) :
                 raw_batch.rows[i]["Country"] \notin DOMAIN COUNTRY_NAME_TO_CODE) =>
                (cleaned.outcome = "KeyError" /\ cleaned.frames = <<>>
                 /\ cleaned.key \notin DOMAIN COUNTRY_NAME_TO_CODE)
          /\ cleaned.outcome = "returned" =>
                \A i \in 1..Len(raw_batch.rows) :
                    /\ cleaned.frames["customers"].rows[i].country
                          = COUNTRY_NAME_TO_CODE[raw_batch.rows[i]["Country"]]
                    /\ cleaned.frames["customers"].rows[i].country
                          \in COUNTRY_VALUE_SET

\* A batch whose second row is from Belgium: the lookup fails on it.
C17_Witness ==
    /\ Called("customers")
    /\ Len(raw_batch.rows) = 2
    /\ raw_batch.rows[1]["Country"] = "Netherlands"
    /\ raw_batch.rows[2]["Country"] = "Belgium"
    /\ cleaned.outcome = "KeyError"
    /\ cleaned.key = "Belgium"

\* The formatted text of the numbers of the product fixtures.
CurrencyForm(number) ==
    CASE number = 662 -> <<"$","6",".","6","2"," ">>
      [] number = 1299 -> <<"$","1","2",".","9","9"," ">>

AsText(cell) == IF IsStr(cell) THEN cell ELSE [str |-> CurrencyForm(cell.float)]

\* The raw batch with every numeric currency cell in its formatted text form.
TextForm(raw) ==
    [raw EXCEPT !.rows =
        [i \in 1..Len(raw.rows) |->
            [raw.rows[i] EXCEPT !["Unit Cost USD"] = AsText(@),
                                !["Unit Price USD"] = AsText(@)]]]

\* C18: cleaning a product batch whose cost and price are already numbers
\* gives what cleaning the same batch with the formatted text of those
\* numbers gives.
C18_NumericParsesLikeText ==
    (Called("products")
     /\ DOMAIN PRODUCT_RENAME_COLUMNS \subseteq raw_batch.columns) =>
        cleaned = clean_product_data_call(TextForm(raw_batch))

\* The text forms themselves parse to the numbers.
CurrencyFormsParse ==
    \A number \in {662, 1299} : ParseCurrency(CurrencyForm(number)) = number

UniqueOn(rows, key) ==
    \A i, j \in 1..Len(rows) : rows[i][key] = rows[j][key] => i = j

\* C19: in every batch a cleaner returns, no two rows share the natural key:
\* customer_id, product_id, product_category_id, product_subcategory_id.
C19_KeysUniqueAfterCleaning ==
    /\ Returned("customers") =>
          UniqueOn(cleaned.frames["customers"].rows, "customer_id")
    /\ Returned("products") =>
          /\ UniqueOn(cleaned.frames["products"].rows, "product_id")
          /\ UniqueOn(cleaned.frames["categories"].rows, "product_category_id")
          /\ UniqueOn(cleaned.frames["subcategories"].rows,
                      "product_subcategory_id")

\* The derived category batches have no two rows equal in id and name.
LookupRowsDistinct ==
    Returned("products") =>
        \A n \in {"categories", "subcategories"} :
            \A i, j \in 1..Len(cleaned.frames[n].rows) :
                SameColumns(cleaned.frames[n].rows[i], cleaned.frames[n].rows[j])
                    => i = j

\* =========================================================================
\* The customer scenario (Spec)
\* =========================================================================
\* The raw batch of the scenario: two customers with their own keys, the
\* first from the United States, the second from the Netherlands.
CustomerScenario ==
    /\ dag = "cookbook1"
    /\ Len(csv) = 2
    /\ csv[1]["Country"] = "United States"
    /\ csv[2]["Country"] = "Netherlands"
    /\ csv[1]["CustomerKey"] # NaN /\ csv[2]["CustomerKey"] # NaN
    /\ csv[1]["CustomerKey"] # csv[2]["CustomerKey"]

\* What the scenario says of the run but for the columns of the cleaned
\* batch: two rows with the codes US and NL, a successful validation, two
\* rows inserted into an empty table, none by a second insert of the batch.
ScenarioRun ==
    /\ pc # "raised"
    /\ pc \notin {"load", "clean"} =>
          /\ Len(df_customers) = 2
          /\ df_customers[1].country = "US"
          /\ df_customers[2].country = "NL"
    /\ Validated("customers") => validation["customers"].success
    /\ pc = "done" =>
          /\ db0 = EmptyDb =>
                Cardinality(DOMAIN db["customers"] \ DOMAIN db0["customers"]) = 2
          /\ InsertInto("customers", RETAIN_COLUMNS, df_customers).rows_inserted = 0

\* C15: the two-row batch is cleaned to 2 rows by the 7 columns customer_id,
\* name, dob, city, state, zip, country with the codes US and NL; its
\* validation succeeds; the first run inserts 2 rows and a repeated run 0.
C15_CustomerScenario ==
    CustomerScenario =>
        /\ ScenarioRun
        /\ pc \notin {"load", "clean"} =>
              \A i \in 1..Len(df_customers) :
                  DOMAIN df_customers[i] \ {"idx"} =
                      {"customer_id", "name", "dob", "city", "state", "zip",
                       "country"}

\* The same with the 6 columns the cleaner retains.
ScenarioWithRetainedColumns ==
    CustomerScenario =>
        /\ ScenarioRun
        /\ pc \notin {"load", "clean"} =>
              \A i \in 1..Len(df_customers) :
                  DOMAIN df_customers[i] \ {"idx"} = Range(RETAIN_COLUMNS)

\* =========================================================================
\* Failed validations across the DAG callables (SpecDags)
\* =========================================================================
FailedValidation == \E n \in DOMAIN validation : ~validation[n].success

TableCheckFailed ==
    /\ dag = "cookbook3" /\ Validated(CHECKPOINT_NAME)
    /\ ~validation[CHECKPOINT_NAME].success

\* C20 as stated: a run with a failed validation reaches its successful end
\* on the soft-fail product path only; on the customer ingest, on a category
\* or subcategory failure and on the table validation it ends raised.
C20_OnlySoftFailContinues ==
    (FailedValidation /\ ~SoftFailed) =>
        /\ pc # "done"
        /\ pc \in {"halt_check", "log", "raised"}

\* C20 amended: a failed customers, category or subcategory validation ends
\* the run raised; a products failure alone and a failed table validation do
\* not: the table validation logs one warning and returns, with no error and
\* nothing written.
C20_FailedValidationByVariant ==
    /\ HardFailed => (pc \in {"halt_check", "raised"} /\ pc # "done")
    /\ (HardFailed /\ pc = "halt_check") =>
          IF dag = "cookbook1" THEN Cookbook1MustHalt(validation)
          ELSE Cookbook2MustHalt(validation)
    /\ SoftFailed => pc # "raised"
    /\ TableCheckFailed =>
          /\ pc \in {"log", "done"}
          /\ run_error = None
          /\ db = db0 /\ error_file = NoFile /\ ~Wrote
          /\ pc = "log" => log_records = <<>>
          /\ pc = "done" =>
                log_records = <<[level |-> "WARNING",
                                 message |-> "Validation failed"]>>
    /\ (FailedValidation /\ pc = "done") => (SoftFailed \/ TableCheckFailed)

\* A table validation that failed on a store with rows, and returned.
C20_Witness ==
    /\ TableCheckFailed
    /\ pc = "done"
    /\ db0 = SeededDb

\* =========================================================================
\* The product scenario (SpecScenario)
\* =========================================================================
BelowCost(df) ==
    {i \in 1..Len(df) : df[i].unit_price_usd < df[i].unit_cost_usd}

\* The cleaned batch of the scenario: one row priced below its cost, every
\* other row priced above its cost, no price under one dollar, a product_id
\* per row.
ProductScenario ==
    /\ dag = "cookbook2"
    /\ pc \notin {"load", "clean"}
    /\ stages # <<>> /\ Happened("CLEANED")
    /\ Cardinality(BelowCost(df_products)) = 1
    /\ \A i \in 1..Len(df_products) :
          /\ df_products[i].unit_price_usd >= MinPriceUsd
          /\ df_products[i].unit_price_usd # df_products[i].unit_cost_usd
    /\ \A i, j \in 1..Len(df_products) :
          df_products[i].product_id = df_products[j].product_id => i = j

TheRowBelowCost == df_products[CHOOSE i \in BelowCost(df_products) : TRUE]

OffendingKeys(validation_result) ==
    UNION {Range(validation_result.results[i].result.unexpected_index_list) :
              i \in {j \in 1..Len(validation_result.results) :
                        /\ ~validation_result.results[j].success
                        /\ "unexpected_index_list" \in
                              DOMAIN validation_result.results[j].result}}

PassedHardChecks ==
    /\ Validated("categories")
    /\ validation["categories"].success
    /\ validation["subcategories"].success

Checked(kind) == val_kind = kind /\ val_result # NotValidated

FailedExpectations(validation_result) ==
    LET failing == SelectSeq(validation_result.results, LAMBDA o : ~o.success)
    IN  [i \in 1..Len(failing) |-> failing[i].expectation_type]

\* A batch of the valid fixture's kind: a key, a zip and a country code of the
\* declared set in every row, a date as dob where there is a dob.
WellFormedRows(with_dob) ==
    \A i \in 1..Len(val_batch[1].rows) :
        LET r == val_batch[1].rows[i]
        IN  /\ r.customer_id # NaN
            /\ r.zip # None
            /\ r.country \in COUNTRY_VALUE_SET
            /\ with_dob => r.dob = "1966-11-02"

\* A batch of the invalid fixture's kind: every row with a key, a country code
\* of the declared set, a null zip and free text as dob.
NullZipRows ==
    /\ val_batch[1].rows # <<>>
    /\ \A i \in 1..Len(val_batch[1].rows) :
          LET r == val_batch[1].rows[i]
          IN  /\ r.customer_id # NaN
              /\ r.zip = None
              /\ r.country \in COUNTRY_VALUE_SET
              /\ r.dob = "June 1, 1969"

\* C22: the validation of a cleaned customer batch with the columns
\* customer_id, name, dob, city, state, zip, country, an integer key, string
\* fields, a date of birth and a country code of the declared set succeeds.
C22_ValidBatchWithDobSucceeds ==
    (Checked("customers")
     /\ val_batch[1].columns = FIXTURE_CUSTOMER_COLUMNS
     /\ WellFormedRows(TRUE)) =>
        val_result[1].success

\* The same batch under the six columns the cleaner retains does succeed, and
\* under the seven columns the one expectation that fails is the column list.
ValidBatchSucceedsWithoutDob ==
    /\ (Checked("customers")
        /\ val_batch[1].columns = CUSTOMER_COLUMN_LIST
        /\ WellFormedRows(FALSE)) =>
          val_result[1].success
    /\ (Checked("customers")
        /\ val_batch[1].columns = FIXTURE_CUSTOMER_COLUMNS
        /\ WellFormedRows(TRUE)) =>
          FailedExpectations(val_result[1])
              = <<"expect_table_columns_to_match_ordered_list">>

\* C23: the validation of a batch that is well-formed but for a null zip and
\* a free-text dob fails, and the expectations that did not succeed are
\* exactly expect_column_values_to_match_regex.
C23_NullZipFailsRegexOnly ==
    (Checked("customers")
     /\ val_batch[1].columns = FIXTURE_CUSTOMER_COLUMNS
     /\ NullZipRows) =>
        /\ ~val_result[1].success
        /\ FailedExpectations(val_result[1])
              = <<"expect_column_values_to_match_regex">>

\* What the suite does with that batch: it fails, on the column list alone;
\* no expectation of the suite is a regex match.
NullZipFailsOnColumnList ==
    /\ (Checked("customers")
        /\ val_batch[1].columns = FIXTURE_CUSTOMER_COLUMNS
        /\ NullZipRows) =>
          /\ ~val_result[1].success
          /\ FailedExpectations(val_result[1])
                = <<"expect_table_columns_to_match_ordered_list">>
    /\ Checked("customers") =>
          \A i \in 1..Len(val_result[1].results) :
              val_result[1].results[i].expectation_type
                  # "expect_column_values_to_match_regex"

\* C24: validate_product_data returns the products, the category and the
\* subcategory result in this order; the products result succeeds iff the
\* columns are the 8 canonical product columns in order and every row has
\* unit_price_usd >= 1.0 and unit_price_usd > unit_cost_usd; the category
\* (subcategory) result succeeds iff the columns are product_category_id
\* (product_subcategory_id), name in order.
C24_ThreeResultsEachOfItsBatch ==
    Checked("products") =>
        /\ Len(val_result) = 3
        /\ val_result[1].success <=>
              /\ val_batch[1].columns = PRODUCT_RETAIN_COLUMNS
              /\ \A i \in 1..Len(val_batch[1].rows) :
                    LET r == val_batch[1].rows[i]
                    IN  /\ r.unit_price_usd >= 100
                        /\ r.unit_price_usd > r.unit_cost_usd
        /\ Len(val_result[1].results) = 3
        /\ val_result[2].success <=>
              val_batch[2].columns = <<"product_category_id", "name">>
        /\ val_result[3].success <=>
              val_batch[3].columns = <<"product_subcategory_id", "name">>
        /\ Len(val_result[2].results) = 1 /\ Len(val_result[3].results) = 1

\* A call where the products and the subcategory batch pass and the category
\* batch, under the subcategory columns, does not.
C24_Witness ==
    /\ Checked("products")
    /\ val_result[1].success
    /\ Len(val_batch[1].rows) = 2
    /\ val_batch[1].rows[2].unit_price_usd = 100
    /\ ~val_result[2].success
    /\ val_result[3].success

\* =========================================================================
\* The dataframe passed in (SpecCall)
\* =========================================================================
\* C25: a call of clean_customer_data, clean_product_data or
\* separate_valid_and_invalid_product_rows, returning or raising, leaves the
\* dataframe passed in with the columns, rows and values it had.
C25_InputUnchanged == [][raw_batch' = raw_batch /\ sep_df' = sep_df]_vars

\* A customer batch cleaned to a city and a country other than the raw ones.
C25_Witness ==
    /\ Returned("customers")
    /\ Len(raw_batch.rows) = 2
    /\ cleaned.frames["customers"].rows[1].city # raw_batch.rows[1]["City"]
    /\ cleaned.frames["customers"].rows[2].country # raw_batch.rows[2]["Country"]

\* =========================================================================
\* The give-up of the poller (SpecPoll)
\* =========================================================================
LastCheck == check_log[Len(check_log)]

StillRunningRaised ==
    poll_pc = "raised" /\ poll_error = "Test DAG is still running"

\* C26: the 'Test DAG is still running' error is raised only if the most
\* recent status check reported the run as not finished; after a status
\* check that reports the run finished, the last permitted one included, the
\* call is on its way to a normal return.
C26_GivesUpOnlyIfUnfinished ==
    /\ StillRunningRaised => (check_log # <<>> /\ ~LastCheck)
    /\ (check_log # <<>> /\ LastCheck /\ poll_error \notin ServiceErrors) =>
          poll_pc \in {"while", "returned"}

\* What holds of the code: a check before the last permitted one that
\* reports the run finished leads to the return; the last permitted check
\* ends in the error whatever it reports.
GivesUpAtLastCheckRegardless ==
    /\ (check_log # <<>> /\ LastCheck /\ Len(check_log) < CompletionCheckLimit
        /\ poll_error \notin ServiceErrors) =>
          poll_pc \in {"while", "returned"}
    /\ Len(check_log) = CompletionCheckLimit => StillRunningRaised

\* =========================================================================
\* Two concurrent inserts (SpecTx)
\* =========================================================================
TxDone == \A run \in Runs : tx_state[run] # "running"

\* The table a single run leaves.
AfterSingleRun ==
    insert_ignore_dataframe_to_postgres(tx_table0, InsertColumns, tx_df).table

\* C27: two runs inserting the same batch into the same table, their
\* statements interleaved in any way, both come to their end without a key
\* conflict; the table then holds one row per key, the rows a single run
\* leaves, and the two rowcounts add up to the number of keys of the batch
\* that were not in the table before.
C27_ConcurrentInsertsAgree ==
    /\ \A run \in Runs : tx_state[run] # "raised"
    /\ ~TxDone =>
          \E run \in Runs :
              tx_state[run] = "running" /\ ~TxWaits(run)
    /\ TxDone =>
          /\ tx_table = AfterSingleRun
          /\ DOMAIN tx_table = DOMAIN tx_table0 \cup BatchKeys(tx_df, InsertColumns)
          /\ \A k \in DOMAIN tx_table : tx_table[k].id = k
          /\ tx_rowcount[1] + tx_rowcount[2] =
                Cardinality(BatchKeys(tx_df, InsertColumns) \ DOMAIN tx_table0)

\* Both runs done, the second having waited for the first on a new key: one
\* run reports the two new rows and the other none.
C27_Witness ==
    /\ TxDone
    /\ Cardinality(BatchKeys(tx_df, InsertColumns) \ DOMAIN tx_table0) = 2
    /\ tx_rowcount[1] = 0
    /\ tx_rowcount[2] = 2

\* =========================================================================
\* The schema of the cleaners and of the validators (SpecClean)
\* =========================================================================
ColumnOrderOutcome(validation_result) == validation_result.results[1]

\* C28: for every raw batch a cleaner accepts, the columns of the cleaned
\* customer batch are the ordered list validate_customer_data expects, and
\* the columns of the three batches of clean_product_data are the ordered
\* lists the products, category and subcategory validations expect: the
\* column-order expectation passes on freshly cleaned data.
C28_CleanedColumnsAreExpected ==
    /\ Returned("customers") =>
          LET frame == cleaned.frames["customers"]
          IN  /\ frame.columns = CUSTOMER_COLUMN_LIST
              /\ \A i \in 1..Len(frame.rows) :
                    DOMAIN frame.rows[i] \ {"idx"} = Range(frame.columns)
              /\ ColumnOrderOutcome(
                     validate_customer_data(frame.rows, frame.columns)).success
    /\ Returned("products") =>
          LET frames == cleaned.frames
              results == validate_product_data(frames["products"],
                             frames["categories"], frames["subcategories"])
          IN  /\ frames["products"].columns = PRODUCT_COLUMN_LIST
              /\ frames["categories"].columns = CATEGORY_COLUMN_LIST
              /\ frames["subcategories"].columns = SUBCATEGORY_COLUMN_LIST
              /\ \A n \in DOMAIN frames : \A i \in 1..Len(frames[n].rows) :
                    DOMAIN frames[n].rows[i] \ {"idx"} = Range(frames[n].columns)
              /\ \A k \in 1..3 : ColumnOrderOutcome(results[k]).success

\* A product batch of two categories, cleaned.
C28_Witness ==
    /\ Returned("products")
    /\ Len(cleaned.frames["products"].rows) = 2
    /\ Len(cleaned.frames["categories"].rows) = 2

\* =========================================================================
\* The error file of the product pipeline (Spec)
\* =========================================================================
ProductsPassed == Validated("products") /\ validation["products"].success
ProductsFailed == Validated("products") /\ ~validation["products"].success

\* C29: in the product pipeline the error file is written if and only if the
\* products validation failed and the run was not aborted by a category or
\* subcategory failure; after a products validation that succeeds nothing is
\* partitioned or exported and the whole cleaned batch goes to the insert;
\* after one that fails the export comes before the products insert.
C29_ErrorFileIffProductsFailed ==
    dag = "cookbook2" =>
        /\ error_file.written =>
              (ProductsFailed /\ ~Cookbook2MustHalt(validation)
               /\ Happened("EXPORTED"))
        /\ pc = "raised" => ~error_file.written
        /\ pc = "done" => (error_file.written <=> ProductsFailed)
        /\ ProductsPassed =>
              /\ ~Happened("PARTITIONED") /\ ~Happened("EXPORTED")
              /\ df_products_invalid = NoFrame
              /\ pc \in {"insert_products", "done"} =>
                    df_products_valid = df_products
              /\ pc = "done" =>
                    DOMAIN db["products"] =
                        DOMAIN db0["products"] \cup PidSet(df_products)
        /\ (ProductsFailed /\ Happened("WRITE products")) =>
              /\ Happened("EXPORTED")
              /\ Pos("EXPORTED") < Pos("WRITE products")
              /\ error_file.written

\* A run of two valid rows at its end: both inserted, no error file.
C29_Witness ==
    /\ dag = "cookbook2" /\ pc = "done"
    /\ ProductsPassed
    /\ Len(df_products) = 2
    /\ ~error_file.written
    /\ Cardinality(DOMAIN db["products"] \ DOMAIN db0["products"]) = 2

====
